---- MODULE Spec2Model ----
(***************************************************************************)
(* EZ Replace (Obsidian plugin): the matching and substitution engine.     *)
(*                                                                         *)
(* Strings are sequences of one-character strings.  Offsets that the       *)
(* TypeScript code sees (indexOf results, cursor columns, substring        *)
(* arguments) are kept 0-based as in the code; TLA+ sequences are 1-based, *)
(* so the helpers convert at the point of access.                          *)
(***************************************************************************)
EXTENDS Integers, Sequences, FiniteSets, TLC

(***************************************************************************)
(* JavaScript string primitives used by the plugin                         *)
(***************************************************************************)

Min(a, b) == IF a < b THEN a ELSE b
Max(a, b) == IF a > b THEN a ELSE b

UpperChars == <<"A","B","C","D","E","F","G","H","I","J","K","L","M",
                "N","O","P","Q","R","S","T","U","V","W","X","Y","Z">>
LowerChars == <<"a","b","c","d","e","f","g","h","i","j","k","l","m",
                "n","o","p","q","r","s","t","u","v","w","x","y","z">>
DigitChars == {"0","1","2","3","4","5","6","7","8","9"}

\* the grave accent (backtick, U+0060) as a character of the model
Backtick == "GRAVE"

\* String.prototype.toLowerCase on one character
LowerChar(c) ==
  IF \E k \in 1..26 : UpperChars[k] = c
  THEN LowerChars[CHOOSE k \in 1..26 : UpperChars[k] = c]
  ELSE c

\* String.prototype.toLowerCase
ToLowerCase(s) == [k \in 1..Len(s) |-> LowerChar(s[k])]

\* \w of the regular-expression engine
IsWordChar(c) ==
  \/ c \in DigitChars
  \/ c = "_"
  \/ \E k \in 1..26 : UpperChars[k] = c \/ LowerChars[k] = c

\* \s of the regular-expression engine
IsSpaceChar(c) == c \in {" ", "\n", "\t", "\r"}

\* String.prototype.substring(from, to), 0-based, end exclusive
Substring(s, from, to) ==
  LET a == Max(0, Min(from, Len(s)))
      b == Max(0, Min(to, Len(s)))
  IN  SubSeq(s, Min(a, b) + 1, Max(a, b))

\* does needle occur in s at 0-based offset i
OccursAt(s, needle, i) ==
  /\ i >= 0
  /\ i + Len(needle) <= Len(s)
  /\ \A k \in 1..Len(needle) : s[i + k] = needle[k]

\* String.prototype.indexOf
IndexOf(s, needle) ==
  IF \E i \in 0..Len(s) : OccursAt(s, needle, i)
  THEN CHOOSE i \in 0..Len(s) :
         /\ OccursAt(s, needle, i)
         /\ \A j \in 0..(i - 1) : ~OccursAt(s, needle, j)
  ELSE -1

\* String.prototype.indexOf(needle, from)
IndexOfFrom(s, needle, from) ==
  IF \E i \in from..Len(s) : OccursAt(s, needle, i)
  THEN CHOOSE i \in from..Len(s) :
         /\ OccursAt(s, needle, i)
         /\ \A j \in from..(i - 1) : ~OccursAt(s, needle, j)
  ELSE -1

\* String.prototype.lastIndexOf
LastIndexOf(s, needle) ==
  IF \E i \in 0..Len(s) : OccursAt(s, needle, i)
  THEN CHOOSE i \in 0..Len(s) :
         /\ OccursAt(s, needle, i)
         /\ \A j \in (i + 1)..Len(s) : ~OccursAt(s, needle, j)
  ELSE -1

\* String.prototype.includes
Includes(s, needle) == IndexOf(s, needle) # -1

\* String.prototype.startsWith
StartsWith(s, prefix) == OccursAt(s, prefix, 0)

\* The replacement-string language of String.prototype.replace for a pattern
\* without capture groups: $$ is a dollar, $& the matched text, $ with a
\* backtick the text before the match, $ with an apostrophe the text after
\* it; every other character, a $ followed by a digit included, stands for
\* itself.
RECURSIVE ExpandReplacement(_, _, _, _)
ExpandReplacement(repl, matched, before, after) ==
  IF repl = <<>> THEN <<>>
  ELSE IF repl[1] = "$" /\ Len(repl) >= 2 /\ repl[2] \in {"$", "&", Backtick, "'"}
       THEN (CASE repl[2] = "$" -> <<"$">>
               [] repl[2] = "&" -> matched
               [] repl[2] = Backtick -> before
               [] repl[2] = "'" -> after)
            \o ExpandReplacement(SubSeq(repl, 3, Len(repl)), matched, before, after)
       ELSE <<repl[1]>>
            \o ExpandReplacement(Tail(repl), matched, before, after)

\* s.replace(new RegExp(<needle, escaped>, 'g'), repl) from offset i on: every
\* non-overlapping occurrence of the (non-empty) needle, left to right, in
\* one pass over the original string
RECURSIVE ReplaceAllFrom(_, _, _, _)
ReplaceAllFrom(s, needle, repl, i) ==
  LET Next(j) ==
        IF j = -1 THEN Substring(s, i, Len(s))
        ELSE Substring(s, i, j)
             \o ExpandReplacement(repl, needle, Substring(s, 0, j),
                                  Substring(s, j + Len(needle), Len(s)))
             \o ReplaceAllFrom(s, needle, repl, j + Len(needle))
  IN  Next(IndexOfFrom(s, needle, i))

ReplaceAll(s, needle, repl) == ReplaceAllFrom(s, needle, repl, 0)

\* s.replace(<needle as a string>, repl): the first occurrence only
ReplaceFirst(s, needle, repl) ==
  LET At(i) ==
        IF i = -1 THEN s
        ELSE Substring(s, 0, i)
             \o ExpandReplacement(repl, needle, Substring(s, 0, i),
                                  Substring(s, i + Len(needle), Len(s)))
             \o Substring(s, i + Len(needle), Len(s))
  IN  At(IndexOf(s, needle))

(***************************************************************************)
(* The regular-expression engine (new RegExp, String.prototype.match,      *)
(* RegExp.prototype.test).  The plugin hands pattern strings to the host's *)
(* engine; the model compiles the subset of the pattern language that the  *)
(* plugin's own patterns and the modelled pairs use: literal characters,   *)
(* backslash escapes of non-word characters, \d, \w, \b, the dot, one      *)
(* level of capture groups, and the greedy quantifiers + and ? on a single *)
(* atom.  Matching is leftmost, greedy, backtracking, as in the host.      *)
(***************************************************************************)

Atom(kind, ch) == [kind |-> kind, ch |-> ch, grp |-> 0, rep |-> "one"]

ParseStart ==
  [ok |-> TRUE, elems |-> <<>>, cur |-> 0, n |-> 0, fresh |-> TRUE]

ParseAdd(acc, atom) ==
  [acc EXCEPT !.elems = Append(acc.elems, [atom EXCEPT !.grp = acc.cur]),
              !.fresh = FALSE]

ParseFail(acc) == [acc EXCEPT !.ok = FALSE]

\* new RegExp(src): a syntax error gives ok = FALSE
RECURSIVE ParseFrom(_, _, _)
ParseFrom(src, i, acc) ==
  IF ~acc.ok THEN acc
  ELSE IF i > Len(src) THEN [acc EXCEPT !.ok = (acc.cur = 0)]
  ELSE LET c == src[i] IN
    CASE c = "\\" ->
           IF i = Len(src) THEN ParseFail(acc)
           ELSE LET d == src[i + 1] IN
                CASE d = "d" -> ParseFrom(src, i + 2, ParseAdd(acc, Atom("digit", "")))
                  [] d = "w" -> ParseFrom(src, i + 2, ParseAdd(acc, Atom("word", "")))
                  [] d = "b" -> ParseFrom(src, i + 2,
                                  [ParseAdd(acc, Atom("boundary", "")) EXCEPT !.fresh = TRUE])
                  [] OTHER   -> IF IsWordChar(d) THEN ParseFail(acc)
                                ELSE ParseFrom(src, i + 2, ParseAdd(acc, Atom("lit", d)))
      [] c = "(" ->
           IF acc.cur # 0 THEN ParseFail(acc)
           ELSE ParseFrom(src, i + 1,
                  [acc EXCEPT !.cur = acc.n + 1, !.n = acc.n + 1, !.fresh = TRUE])
      [] c = ")" ->
           IF acc.cur = 0 THEN ParseFail(acc)
           ELSE ParseFrom(src, i + 1, [acc EXCEPT !.cur = 0, !.fresh = TRUE])
      [] c \in {"+", "?"} ->
           IF acc.fresh \/ acc.elems = <<>> THEN ParseFail(acc)
           ELSE ParseFrom(src, i + 1,
                  [acc EXCEPT !.elems[Len(acc.elems)].rep =
                                 IF c = "+" THEN "plus" ELSE "opt",
                              !.fresh = TRUE])
      [] c = "." -> ParseFrom(src, i + 1, ParseAdd(acc, Atom("any", "")))
      [] c \in {"[", "]", "{", "}", "*", "|", "^", "$"} -> ParseFail(acc)
      [] OTHER -> ParseFrom(src, i + 1, ParseAdd(acc, Atom("lit", c)))

Compile(src) == ParseFrom(src, 1, ParseStart)

\* does the atom accept character c (ci: the 'i' flag)
AtomMatches(e, c, ci) ==
  CASE e.kind = "lit"   -> IF ci THEN LowerChar(c) = LowerChar(e.ch) ELSE c = e.ch
    [] e.kind = "digit" -> c \in DigitChars
    [] e.kind = "word"  -> IsWordChar(c)
    [] e.kind = "any"   -> c # "\n"
    [] OTHER            -> FALSE

\* \b at 0-based offset pos
IsBoundary(text, pos) ==
  (pos > 0 /\ IsWordChar(text[pos])) # (pos < Len(text) /\ IsWordChar(text[pos + 1]))

\* number of consecutive characters from offset pos that the atom accepts
RECURSIVE RunLen(_, _, _, _)
RunLen(e, text, pos, ci) ==
  IF pos < Len(text) /\ AtomMatches(e, text[pos + 1], ci)
  THEN 1 + RunLen(e, text, pos + 1, ci)
  ELSE 0

NoMatch == [ok |-> FALSE, ends |-> <<>>]

\* match elements k.. of the pattern at offset pos; ends[j] is the offset
\* after element k+j-1.  TryRun gives element k the longest run first.
RECURSIVE MatchHere(_, _, _, _, _)
RECURSIVE TryRun(_, _, _, _, _, _, _)
TryRun(elems, k, text, pos, ci, n, minN) ==
  IF n < minN THEN NoMatch
  ELSE LET r == MatchHere(elems, k + 1, text, pos + n, ci) IN
       IF r.ok THEN [ok |-> TRUE, ends |-> <<pos + n>> \o r.ends]
       ELSE TryRun(elems, k, text, pos, ci, n - 1, minN)

MatchHere(elems, k, text, pos, ci) ==
  IF k > Len(elems) THEN [ok |-> TRUE, ends |-> <<>>]
  ELSE LET e == elems[k] IN
       IF e.kind = "boundary"
       THEN IF IsBoundary(text, pos)
            THEN TryRun(elems, k, text, pos, ci, 0, 0)
            ELSE NoMatch
       ELSE LET Longest(run) == IF e.rep = "plus" THEN run ELSE Min(1, run) IN
            TryRun(elems, k, text, pos, ci,
                   Longest(RunLen(e, text, pos, ci)),
                   IF e.rep = "opt" THEN 0 ELSE 1)

\* the leftmost match that starts at offset from or later
RECURSIVE FirstMatchFrom(_, _, _, _)
FirstMatchFrom(elems, text, from, ci) ==
  IF from > Len(text) THEN [ok |-> FALSE, start |-> 0, ends |-> <<>>]
  ELSE LET Here(r) ==
             IF r.ok THEN [ok |-> TRUE, start |-> from, ends |-> r.ends]
             ELSE FirstMatchFrom(elems, text, from + 1, ci)
       IN  Here(MatchHere(elems, 1, text, from, ci))

MatchEnd(m) == IF m.ends = <<>> THEN m.start ELSE m.ends[Len(m.ends)]

\* text of capture group g of match m
GroupText(elems, text, m, g) ==
  LET K == {k \in 1..Len(elems) : elems[k].grp = g} IN
  IF K = {} THEN <<>>
  ELSE LET lo == CHOOSE k \in K : \A j \in K : k <= j
           hi == CHOOSE k \in K : \A j \in K : k >= j
       IN  Substring(text, IF lo = 1 THEN m.start ELSE m.ends[lo - 1], m.ends[hi])

\* the match array without the g flag: [0] the matched text, [1..n] the groups
MatchArray(re, text, m) ==
  <<Substring(text, m.start, MatchEnd(m))>>
  \o [g \in 1..re.n |-> GroupText(re.elems, text, m, g)]

\* the match array with the g flag: the matched texts of all matches
RECURSIVE AllMatches(_, _, _, _)
AllMatches(elems, text, from, ci) ==
  LET Collect(m) ==
        IF ~m.ok THEN <<>>
        ELSE <<Substring(text, m.start, MatchEnd(m))>>
             \o AllMatches(elems, text,
                           IF MatchEnd(m) = m.start THEN m.start + 1 ELSE MatchEnd(m),
                           ci)
  IN  Collect(FirstMatchFrom(elems, text, from, ci))

\* the flags argument of new RegExp is accepted: known letters, none twice
ValidFlags(flags) ==
  /\ \A k \in 1..Len(flags) : flags[k] \in {"d", "g", "i", "m", "s", "u", "y"}
  /\ \A j, k \in 1..Len(flags) : j # k => flags[j] # flags[k]

\* text.match(re) for a compiled expression re; ci and global are its i and g
\* flags
MatchCompiled(re, text, ci, global) ==
  IF ~re.ok THEN [ok |-> FALSE, arr |-> <<>>]
  ELSE IF global
       THEN LET All(all) == [ok |-> all # <<>>, arr |-> all]
            IN  All(AllMatches(re.elems, text, 0, ci))
       ELSE LET First(m) ==
                  IF m.ok THEN [ok |-> TRUE, arr |-> MatchArray(re, text, m)]
                  ELSE [ok |-> FALSE, arr |-> <<>>]
            IN  First(FirstMatchFrom(re.elems, text, 0, ci))

\* text.match(new RegExp(src, flags)): ok = FALSE stands for null (or for the
\* exception of new RegExp, which every caller turns into "no match")
StringMatch(text, src, flags) ==
  IF ~ValidFlags(flags) THEN [ok |-> FALSE, arr |-> <<>>]
  ELSE MatchCompiled(Compile(src), text, Includes(flags, <<"i">>),
                     Includes(flags, <<"g">>))

\* new RegExp(src, flags).test(text)
RegexTest(text, src, flags) == StringMatch(text, src, flags).ok

\* match[i] || ''
MatchGroupOrEmpty(match, i) == IF i < Len(match) THEN match[i + 1] ELSE <<>>

(***************************************************************************)
(* Pairs.  A pair is a record                                              *)
(*   id, source, target : strings                                          *)
(*   enabled, isRegex, isTemplate : BOOLEAN (an absent flag is FALSE)      *)
(*   caseSensitive, wholeWord : "true" | "false" | "undefined"             *)
(*   regexFlags : string ('' when absent)                                  *)
(*   matchContext : [present, include, exclude]                            *)
(*   templateVariables : sequence of [name, type, dateFormat, timeFormat,  *)
(*                                    defaultValue]                        *)
(*   usageCount : Nat (absent counts as 0), lastUsedAt : Nat (0 = unset)   *)
(***************************************************************************)

NoContext == [present |-> FALSE, include |-> <<>>, exclude |-> <<>>]

SeqIncludes(list, x) == \E k \in 1..Len(list) : list[k] = x

\* a variant that consults the include list before the exclude list
isContextAllowed_IncludeFirst(pair, context) ==
  LET matchContext == pair.matchContext IN
  IF ~matchContext.present THEN TRUE
  ELSE IF Len(matchContext.include) > 0
       THEN SeqIncludes(matchContext.include, context)
       ELSE ~SeqIncludes(matchContext.exclude, context)

isContextAllowed(pair, context) ==
  LET matchContext == pair.matchContext IN
  IF ~matchContext.present THEN TRUE
  ELSE IF Len(matchContext.exclude) > 0 /\ SeqIncludes(matchContext.exclude, context)
       THEN FALSE
       ELSE IF Len(matchContext.include) > 0
            THEN SeqIncludes(matchContext.include, context)
            ELSE TRUE

RECURSIVE escapeRegex(_)
escapeRegex(str) ==
  IF str = <<>> THEN <<>>
  ELSE (IF str[1] \in {".", "*", "+", "?", "^", "$", "{", "}", "(", ")", "|", "[", "]", "\\"}
        THEN <<"\\", str[1]>>
        ELSE <<str[1]>>)
       \o escapeRegex(Tail(str))

\* new RegExp(pattern, flags) does not throw
RegExpConstructs(pattern, flags) ==
  /\ ValidFlags(flags)
  /\ Compile(pattern).ok

validateRegex(pattern, flags) ==
  IF pattern = <<>> THEN FALSE
  ELSE RegExpConstructs(pattern, flags)

\* the flags regexMatch, regexPrefixMatch and selectSuggestion build
EffectiveFlags(pair) ==
  IF pair.caseSensitive = "false" /\ ~Includes(pair.regexFlags, <<"i">>)
  THEN pair.regexFlags \o <<"i">>
  ELSE pair.regexFlags

\* results of isMatch: false/null, true, or a match array; threw stands for
\* an exception that leaves the function instead of a result
MatchNone == [matched |-> FALSE, isArray |-> FALSE, arr |-> <<>>, threw |-> FALSE]
MatchTrue == [matched |-> TRUE, isArray |-> FALSE, arr |-> <<>>, threw |-> FALSE]
MatchArr(arr) == [matched |-> TRUE, isArray |-> TRUE, arr |-> arr, threw |-> FALSE]
MatchThrew == [matched |-> FALSE, isArray |-> FALSE, arr |-> <<>>, threw |-> TRUE]

\* regexMatch without validateRegex and without its try and catch
regexMatch_Unguarded(text, pair) ==
  IF ~RegExpConstructs(pair.source, EffectiveFlags(pair)) THEN MatchThrew
  ELSE LET Whole(match) ==
             IF match.ok /\ match.arr[1] = text THEN MatchArr(match.arr)
             ELSE MatchNone
       IN  Whole(StringMatch(text, pair.source, EffectiveFlags(pair)))

\* regexMatch without the comparison of match[0] with the text
regexMatch_Partial(text, pair) ==
  IF ~validateRegex(pair.source, pair.regexFlags) THEN MatchNone
  ELSE LET Found(match) == IF match.ok THEN MatchArr(match.arr) ELSE MatchNone
       IN  Found(StringMatch(text, pair.source, EffectiveFlags(pair)))

\* the catch of regexMatch turns the exception of new RegExp with the
\* effective flags into null, as StringMatch does
regexMatch(text, pair) ==
  IF ~validateRegex(pair.source, pair.regexFlags) THEN MatchNone
  ELSE LET Whole(match) ==
             IF match.ok /\ match.arr[1] = text THEN MatchArr(match.arr)
             ELSE MatchNone
       IN  Whole(StringMatch(text, pair.source, EffectiveFlags(pair)))

\* a variant that never lower-cases
isMatch_Exact(text, pair) ==
  IF pair.isRegex THEN regexMatch(text, pair)
  ELSE IF pair.source = text THEN MatchTrue ELSE MatchNone

isMatch(text, pair) ==
  IF pair.isRegex THEN regexMatch(text, pair)
  ELSE LET lower == (pair.caseSensitive = "false")
           sourceToMatch == IF lower THEN ToLowerCase(pair.source) ELSE pair.source
           textToMatch == IF lower THEN ToLowerCase(text) ELSE text
           wordBoundary == <<"\\", "b">> \o escapeRegex(sourceToMatch) \o <<"\\", "b">>
           flags == IF pair.caseSensitive = "true" THEN <<>> ELSE <<"i">>
       IN  IF pair.wholeWord = "true"
           THEN IF ~RegExpConstructs(wordBoundary, flags) THEN MatchThrew
                ELSE IF RegexTest(text, wordBoundary, flags)
                     THEN MatchTrue ELSE MatchNone
           ELSE IF sourceToMatch = textToMatch THEN MatchTrue ELSE MatchNone

NotFound == [found |-> FALSE, idx |-> 0, match |-> MatchNone]

\* the loop of findMatchingPairWithResult from list position k on; idx is the
\* list position of the returned pair; an exception of isMatch ends the loop
\* and leaves the function (match.threw)
RECURSIVE FindFrom(_, _, _, _)
FindFrom(pairs, k, text, context) ==
  IF k > Len(pairs) THEN NotFound
  ELSE LET pair == pairs[k] IN
       IF ~pair.enabled THEN FindFrom(pairs, k + 1, text, context)
       ELSE IF context # "undefined" /\ ~isContextAllowed(pair, context)
            THEN FindFrom(pairs, k + 1, text, context)
            ELSE LET Decide(matchResult) ==
                       IF matchResult.threw
                       THEN [found |-> FALSE, idx |-> k, match |-> matchResult]
                       ELSE IF matchResult.matched
                       THEN [found |-> TRUE, idx |-> k, match |-> matchResult]
                       ELSE FindFrom(pairs, k + 1, text, context)
                 IN  Decide(isMatch(text, pair))

\* a variant in which a later acceptable pair overwrites an earlier one
findMatchingPairWithResult_LastWins(pairs, text, context) ==
  LET K == {k \in 1..Len(pairs) :
              /\ pairs[k].enabled
              /\ (context = "undefined" \/ isContextAllowed(pairs[k], context))
              /\ isMatch(text, pairs[k]).matched}
  IN  IF K = {} THEN NotFound
      ELSE LET k == CHOOSE k \in K : \A j \in K : j <= k IN
           [found |-> TRUE, idx |-> k, match |-> isMatch(text, pairs[k])]

findMatchingPairWithResult(pairs, text, context) == FindFrom(pairs, 1, text, context)

ESCAPED_DOLLAR_PLACEHOLDER ==
  <<"NUL", "E", "S", "C", "A", "P", "E", "D", "_", "D", "O", "L", "L", "A", "R", "NUL">>

DigitOf(i) == <<"0", "1", "2", "3", "4", "5", "6", "7", "8", "9">>[i + 1]

\* the loop "for i = 1..9: result.replace(/\$i/g, match[i] || '')"
RECURSIVE ApplyGroupsFrom(_, _, _)
ApplyGroupsFrom(result, match, i) ==
  IF i > 9 THEN result
  ELSE ApplyGroupsFrom(
         ReplaceAll(result, <<"$", DigitOf(i)>>, MatchGroupOrEmpty(match, i)),
         match, i + 1)

\* a variant that does not put \$ aside
applyCaptureGroups_NoEscape(target, match) ==
  ApplyGroupsFrom(ReplaceAll(target, <<"$", "0">>, MatchGroupOrEmpty(match, 0)),
                  match, 1)

\* from the inside out: \$ is put aside as the placeholder, $0 is replaced,
\* then $1..$9, then the placeholder becomes a dollar
applyCaptureGroups(target, match) ==
  ReplaceAll(
    ApplyGroupsFrom(
      ReplaceAll(ReplaceAll(target, <<"\\", "$">>, ESCAPED_DOLLAR_PLACEHOLDER),
                 <<"$", "0">>, MatchGroupOrEmpty(match, 0)),
      match, 1),
    ESCAPED_DOLLAR_PLACEHOLDER, <<"$">>)

(***************************************************************************)
(* TemplateProcessor                                                       *)
(***************************************************************************)

CURSOR_MARKER == <<"{", "{", "c", "u", "r", "s", "o", "r", "}", "}">>

Str_date == <<"d", "a", "t", "e">>
Str_time == <<"t", "i", "m", "e">>
Str_selection == <<"s", "e", "l", "e", "c", "t", "i", "o", "n">>
Str_clipboard == <<"c", "l", "i", "p", "b", "o", "a", "r", "d">>
Str_cursor == <<"c", "u", "r", "s", "o", "r">>
Str_tab == <<"t", "a", "b">>

monthNames ==
  <<<<"J", "a", "n", "u", "a", "r", "y">>,
    <<"F", "e", "b", "r", "u", "a", "r", "y">>,
    <<"M", "a", "r", "c", "h">>,
    <<"A", "p", "r", "i", "l">>,
    <<"M", "a", "y">>,
    <<"J", "u", "n", "e">>,
    <<"J", "u", "l", "y">>,
    <<"A", "u", "g", "u", "s", "t">>,
    <<"S", "e", "p", "t", "e", "m", "b", "e", "r">>,
    <<"O", "c", "t", "o", "b", "e", "r">>,
    <<"N", "o", "v", "e", "m", "b", "e", "r">>,
    <<"D", "e", "c", "e", "m", "b", "e", "r">>>>

\* String(n) for a natural number
RECURSIVE NatToStr(_)
NatToStr(n) == IF n < 10 THEN <<DigitOf(n)>> ELSE NatToStr(n \div 10) \o <<DigitOf(n % 10)>>

\* String(n).padStart(2, '0')
Pad2(n) == IF n < 10 THEN <<"0">> \o NatToStr(n) ELSE NatToStr(n)

\* date: [year, month (0-based), day, hours, minutes, seconds]
formatDate(date, format) ==
  LET Layout(year, month, day, monthName) ==
      CASE format = "DD/MM/YYYY" -> day \o <<"/">> \o month \o <<"/">> \o year
        [] format = "MM/DD/YYYY" -> month \o <<"/">> \o day \o <<"/">> \o year
        [] format = "YYYY/MM/DD" -> year \o <<"/">> \o month \o <<"/">> \o day
        [] format = "DD-MM-YYYY" -> day \o <<"-">> \o month \o <<"-">> \o year
        [] format = "Month DD, YYYY" -> monthName \o <<" ">> \o day \o <<",", " ">> \o year
        [] format = "DD Month YYYY" -> day \o <<" ">> \o monthName \o <<" ">> \o year
        [] OTHER -> year \o <<"-">> \o month \o <<"-">> \o day
  IN  Layout(NatToStr(date.year), Pad2(date.month + 1), Pad2(date.day),
             monthNames[date.month + 1])

formatTime(date, format) ==
  LET Layout(hours24, minutes, seconds) ==
      CASE format = "HH:MM:SS" -> Pad2(hours24) \o <<":">> \o minutes \o <<":">> \o seconds
        [] format = "12h" ->
             NatToStr(IF hours24 % 12 = 0 THEN 12 ELSE hours24 % 12)
             \o <<":">> \o minutes \o <<" ">>
             \o (IF hours24 < 12 THEN <<"A", "M">> ELSE <<"P", "M">>)
        [] OTHER -> Pad2(hours24) \o <<":">> \o minutes
  IN  Layout(date.hours, Pad2(date.minutes), Pad2(date.seconds))

sanitizeValue(value) ==
  LET SanitizeAllowed(c) ==
        \/ IsWordChar(c)
        \/ IsSpaceChar(c)
        \/ c \in {".", ",", "!", "?", ";", ":", "(", ")", "-", "'", "\""}
  IN  SelectSeq(value, SanitizeAllowed)

\* length of the name that /\{\{([^}]+)\}\}/ captures when it matches at
\* 0-based offset i, or 0 when it does not match there
VariableLenAt(template, i) ==
  IF ~OccursAt(template, <<"{", "{">>, i) THEN 0
  ELSE LET Name(stop) ==
             IF stop >= i + 3 /\ OccursAt(template, <<"}", "}">>, stop)
             THEN stop - (i + 2)
             ELSE 0
       IN  Name(IndexOfFrom(template, <<"}">>, i + 2))

\* the names captured by matchAll(/\{\{([^}]+)\}\}/g), in order of occurrence,
\* scanning from 0-based offset i
RECURSIVE VariableNamesFrom(_, _)
VariableNamesFrom(template, i) ==
  LET Starts == {p \in i..Len(template) : VariableLenAt(template, p) > 0}
      Next(p) ==
        <<Substring(template, p + 2, p + 2 + VariableLenAt(template, p))>>
        \o VariableNamesFrom(template, p + 2 + VariableLenAt(template, p) + 2)
  IN  IF Starts = {} THEN <<>>
      ELSE Next(CHOOSE p \in Starts : \A q \in Starts : p <= q)

\* variableMap.get(varName): the last definition with that name; 0 when none
VariableIndex(variables, varName) ==
  LET K == {k \in 1..Len(variables) : variables[k].name = varName} IN
  IF K = {} THEN 0 ELSE CHOOSE k \in K : \A j \in K : j <= k

\* does resolving the name read the clipboard
NeedsClipboard(variables, varName) ==
  LET k == VariableIndex(variables, varName) IN
  IF k # 0 THEN variables[k].type = "clipboard" ELSE varName = Str_clipboard

\* resolveVariable / resolveBuiltInVariable for every source but the
\* clipboard; date is the reading of the clock at the time of the call
ResolveSync(variables, varName, selectedText, date) ==
  LET k == VariableIndex(variables, varName) IN
  IF k # 0
  THEN LET variable == variables[k] IN
       CASE variable.type = "date" ->
              formatDate(date, IF variable.dateFormat = "" THEN "YYYY-MM-DD"
                               ELSE variable.dateFormat)
         [] variable.type = "time" ->
              formatTime(date, IF variable.timeFormat = "" THEN "24h"
                               ELSE variable.timeFormat)
         [] variable.type = "selection" -> selectedText
         [] variable.type = "custom" -> variable.defaultValue
         [] OTHER -> <<>>
  ELSE CASE varName = Str_date -> formatDate(date, "YYYY-MM-DD")
         [] varName = Str_time -> formatTime(date, "24h")
         [] varName = Str_selection -> selectedText
         [] varName = Str_cursor -> CURSOR_MARKER
         [] OTHER -> IF StartsWith(varName, Str_tab)
                     THEN <<"{", "{">> \o varName \o <<"}", "}">>
                     ELSE <<>>

\* result.replace(new RegExp('\{\{' + escapeRegex(varName) + '\}\}', 'g'), value)
SubstituteVariable(result, varName, value) ==
  ReplaceAll(result, <<"{", "{">> \o varName \o <<"}", "}">>, value)

\* One stretch of the loop of process(): the names still to do are handled
\* in order until one needs the clipboard (an await on the host) or none is
\* left.  st = [result, todo, processedVars]
RECURSIVE ProcessRun(_, _, _, _)
ProcessRun(st, variables, selectedText, date) ==
  IF st.todo = <<>> THEN st
  ELSE LET varName == Head(st.todo) IN
       IF SeqIncludes(st.processedVars, varName)
       THEN ProcessRun([st EXCEPT !.todo = Tail(st.todo)], variables, selectedText, date)
       ELSE IF NeedsClipboard(variables, varName) THEN st
            ELSE ProcessRun(
                   [result |-> SubstituteVariable(st.result, varName,
                                 ResolveSync(variables, varName, selectedText, date)),
                    todo |-> Tail(st.todo),
                    processedVars |-> Append(st.processedVars, varName)],
                   variables, selectedText, date)

\* process() up to its first await on the clipboard
ProcessStart(template, variables, selectedText, date) ==
  ProcessRun([result |-> template, todo |-> VariableNamesFrom(template, 0),
              processedVars |-> <<>>],
             variables, selectedText, date)

\* process() resumed with the value getClipboardContent() returned
ProcessResume(st, value, variables, selectedText, date) ==
  ProcessRun([result |-> SubstituteVariable(st.result, Head(st.todo), value),
              todo |-> Tail(st.todo),
              processedVars |-> Append(st.processedVars, Head(st.todo))],
             variables, selectedText, date)

calculateCursorPosition(processedTemplate) == IndexOf(processedTemplate, CURSOR_MARKER)

removeCursorMarker(template) == ReplaceFirst(template, CURSOR_MARKER, <<>>)

\* length of the {{tab<digits>}} marker that starts at 0-based offset i, or 0
TabStopLenAt(s, i) ==
  IF ~OccursAt(s, <<"{", "{", "t", "a", "b">>, i) THEN 0
  ELSE LET Closed(digits) ==
             IF digits >= 1 /\ OccursAt(s, <<"}", "}">>, i + 5 + digits)
             THEN 5 + digits + 2
             ELSE 0
       IN  Closed(RunLen(Atom("digit", ""), s, i + 5, FALSE))

\* template.replace(/\{\{tab(\d+)\}\}/g, '') from offset i on
RECURSIVE RemoveTabStopsFrom(_, _)
RemoveTabStopsFrom(s, i) ==
  LET Starts == {p \in i..Len(s) : TabStopLenAt(s, p) > 0}
      Next(p) == Substring(s, i, p) \o RemoveTabStopsFrom(s, p + TabStopLenAt(s, p))
  IN  IF Starts = {} THEN Substring(s, i, Len(s))
      ELSE Next(CHOOSE p \in Starts : \A q \in Starts : p <= q)

removeTabStopMarkers(template) == RemoveTabStopsFrom(template, 0)

\* the part of processTemplate after process() has returned
FinishTemplate(processed) == removeTabStopMarkers(removeCursorMarker(processed))

(***************************************************************************)
(* Context classification (detectContext and its helpers)                  *)
(***************************************************************************)

\* fullText.split('\n')
RECURSIVE SplitLines(_)
SplitLines(text) ==
  LET Cut(i) ==
        IF i = -1 THEN <<text>>
        ELSE <<Substring(text, 0, i)>> \o SplitLines(Substring(text, i + 1, Len(text)))
  IN  Cut(IndexOf(text, <<"\n">>))

\* String.prototype.trim
RECURSIVE TrimStart(_)
TrimStart(s) == IF s # <<>> /\ IsSpaceChar(s[1]) THEN TrimStart(Tail(s)) ELSE s

RECURSIVE TrimEnd(_)
TrimEnd(s) ==
  IF s # <<>> /\ IsSpaceChar(s[Len(s)]) THEN TrimEnd(SubSeq(s, 1, Len(s) - 1)) ELSE s

Trim(s) == TrimEnd(TrimStart(s))

\* the fence test of isInCodeBlock on line.trim(): three backticks or three tildes
IsFenceLine(line) ==
  LET Fence(trimmed) ==
        \/ StartsWith(trimmed, <<Backtick, Backtick, Backtick>>)
        \/ StartsWith(trimmed, <<"~", "~", "~">>)
  IN  Fence(Trim(line))

\* isInCodeBlock with a loop that stops before currentLine
isInCodeBlock_Before(lines, currentLine) ==
  Cardinality({i \in 0..(currentLine - 1) : IsFenceLine(lines[i + 1])}) % 2 = 1

\* currentLine is 0-based
isInCodeBlock(lines, currentLine) ==
  Cardinality({i \in 0..currentLine : IsFenceLine(lines[i + 1])}) % 2 = 1

isInInlineCode(lineText, ch) ==
  Cardinality({i \in 0..(Min(ch, Len(lineText)) - 1) :
                 /\ lineText[i + 1] = Backtick
                 /\ ~(i > 0 /\ lineText[i] = "\\")}) % 2 = 1

\* /^#{1,6}\s/.test(lineText)
IsHeadingLine(lineText) ==
  LET Hashes(n) ==
        n >= 1 /\ n <= 6 /\ n < Len(lineText) /\ IsSpaceChar(lineText[n + 1])
  IN  Hashes(RunLen(Atom("lit", "#"), lineText, 0, FALSE))

isInLink(lineText, ch) ==
  LET Inside(lastOpenBracket, lastCloseBracket, lastOpenParen, lastCloseParen) ==
        IF lastOpenBracket > lastCloseBracket THEN TRUE
        ELSE /\ lastOpenParen > lastCloseParen
             /\ lastCloseBracket # -1
             /\ lastOpenParen > lastCloseBracket
      Last(beforeCursor) ==
        Inside(LastIndexOf(beforeCursor, <<"[">>), LastIndexOf(beforeCursor, <<"]">>),
               LastIndexOf(beforeCursor, <<"(">>), LastIndexOf(beforeCursor, <<")">>))
  IN  Last(Substring(lineText, 0, ch))

\* /^>\s*/.test(lineText)
IsQuoteLine(lineText) == StartsWith(lineText, <<">">>)

\* /^[\s]*[-*+]\s|^[\s]*\d+\.\s/.test(lineText)
IsListLine(lineText) ==
  LET Item(body, digits) ==
        \/ /\ Len(body) >= 2
           /\ body[1] \in {"-", "*", "+"}
           /\ IsSpaceChar(body[2])
        \/ /\ digits >= 1
           /\ Len(body) >= digits + 2
           /\ body[digits + 1] = "."
           /\ IsSpaceChar(body[digits + 2])
  IN  Item(TrimStart(lineText), RunLen(Atom("digit", ""), TrimStart(lineText), 0, FALSE))

\* detectContext(editor, line, ch) on the document text
\* the checks of detectContext on the lines of the document and the line
\* of the cursor
ClassifyLine(lines, line, lineText, ch) ==
  IF isInCodeBlock(lines, line) THEN "codeBlock"
  ELSE IF isInInlineCode(lineText, ch) THEN "inlineCode"
  ELSE IF IsHeadingLine(lineText) THEN "heading"
  ELSE IF isInLink(lineText, ch) THEN "link"
  ELSE IF IsQuoteLine(lineText) THEN "quote"
  ELSE IF IsListLine(lineText) THEN "list"
  ELSE "normal"

detectContext(fullText, line, ch) ==
  ClassifyLine(SplitLines(fullText), line, SplitLines(fullText)[line + 1], ch)

(***************************************************************************)
(* The editor surface: the document is one string, the selection a pair of *)
(* 0-based offsets from <= to, the cursor the head of the selection.       *)
(***************************************************************************)

\* number of "\n" in s
CountNewlines(s) == Cardinality({k \in 1..Len(s) : s[k] = "\n"})

\* offsetToPos of the editor
OffsetToPos(text, offset) ==
  LET Pos(before) ==
        [line |-> CountNewlines(before),
         ch |-> Len(before) - (LastIndexOf(before, <<"\n">>) + 1)]
  IN  Pos(Substring(text, 0, offset))

\* 0-based offset at which 0-based line starts
LineStart(text, line) ==
  IF line = 0 THEN 0
  ELSE 1 + CHOOSE i \in 0..(Len(text) - 1) :
             /\ text[i + 1] = "\n"
             /\ CountNewlines(Substring(text, 0, i)) = line - 1

\* posToOffset of the editor; a position outside the document is clipped
PosToOffset(text, pos) ==
  LET Column(lines, line) ==
        IF pos.line > Len(lines) - 1 THEN Len(lines[line + 1])
        ELSE IF pos.line < 0 THEN 0
        ELSE Max(0, Min(pos.ch, Len(lines[line + 1])))
      Clip(lines, line) == LineStart(text, line) + Column(lines, line)
      Lines(lines) == Clip(lines, Max(0, Min(pos.line, Len(lines) - 1)))
  IN  Lines(SplitLines(text))

\* editor.replaceRange(replacement, from, to) on offsets
ReplaceRangeText(text, from, to, replacement) ==
  Substring(text, 0, from) \o replacement \o Substring(text, to, Len(text))

(***************************************************************************)
(* State                                                                   *)
(***************************************************************************)

VARIABLES
  replacementPairs,   \* settings.replacementPairs
  statistics,         \* settings.statistics
  suggester,          \* settings.suggester
  persisted,          \* what the last completed saveData wrote
  doc,                \* editor.getValue()
  selFrom, selTo,     \* the selection; the cursor is selTo
  clipboard,          \* the system clipboard
  now,                \* the reading of the clock (Date.now(), new Date())
  cmds,               \* replace commands suspended at an await
  context,            \* this.context of the suggester
  currentSuggestions, \* this.currentSuggestions (list positions of the pairs)
  shown,              \* what onTrigger and getSuggestions returned at their last call
  probe,              \* the last call of a pure function: inputs and result
  last,               \* the last run of the replace command or of selectSuggestion
  applied             \* substitutions performed since the statistics were reset

vars == <<replacementPairs, statistics, suggester, persisted, doc, selFrom, selTo,
          clipboard, now, cmds, context, currentSuggestions, shown, probe, last,
          applied>>


(***************************************************************************)
(* The pairs of the model                                                  *)
(***************************************************************************)

NewPair(id, source, target) ==
  [id |-> id, source |-> source, target |-> target, enabled |-> TRUE,
   caseSensitive |-> "true", wholeWord |-> "false",
   isRegex |-> FALSE, regexFlags |-> <<>>, matchContext |-> NoContext,
   isTemplate |-> FALSE, templateVariables |-> <<>>,
   usageCount |-> 0, lastUsedAt |-> 0]

\* a whole-word literal pair
PairHello ==
  [NewPair("hello", <<"h", "e", "l", "l", "o">>, <<"H", "i">>) EXCEPT !.wholeWord = "true"]

\* a case-insensitive literal pair that is excluded from code blocks
PairHi ==
  [NewPair("hi", <<"h", "i">>, <<"y", "o">>) EXCEPT
     !.caseSensitive = "false",
     !.matchContext = [present |-> TRUE, include |-> <<>>, exclude |-> <<"codeBlock">>]]

\* a literal pair that is only allowed in headings, and never in links
PairHeading ==
  [NewPair("hd", <<"h", "i">>, <<"H", "1">>) EXCEPT
     !.matchContext = [present |-> TRUE, include |-> <<"heading", "link">>,
                       exclude |-> <<"link">>]]

\* the date pair of the README: (\d{4})-(\d{2})-(\d{2}) with the counted
\* repetitions written out
PairDate ==
  [NewPair("date", <<"(", "\\", "d", "\\", "d", "\\", "d", "\\", "d", ")", "-", "(", "\\", "d", "\\", "d", ")", "-", "(", "\\", "d", "\\", "d", ")">>, <<"$", "3", "/", "$", "2", "/", "$", "1">>) EXCEPT
     !.isRegex = TRUE]

\* a regex pair that echoes the whole match
PairEcho ==
  [NewPair("echo", <<"(", ".", ")", "(", ".", "+", ")">>, <<"$", "0">>) EXCEPT !.isRegex = TRUE]

\* a regex pair whose pattern does not compile
PairBroken ==
  [NewPair("broken", <<"(", "h", "i">>, <<"x">>) EXCEPT !.isRegex = TRUE]

\* a literal pair with the given options whose context filter has been
\* opened in the advanced options and left empty
PairWith(id, source, caseSensitive, wholeWord) ==
  [NewPair(id, source, <<"x">>) EXCEPT
     !.caseSensitive = caseSensitive, !.wholeWord = wholeWord,
     !.matchContext = [present |-> TRUE, include |-> <<>>, exclude |-> <<>>]]

\* a regex pair whose pattern is empty
PairEmptyRegex ==
  [NewPair("blank", <<>>, <<"x">>) EXCEPT !.isRegex = TRUE]

(***************************************************************************)
(* Values of the variables when nothing has happened yet                   *)
(***************************************************************************)

DEFAULT_STATISTICS == [totalReplacements |-> 0, lastResetAt |-> 0]

DEFAULT_SUGGESTER ==
  [enabled |-> TRUE, minCharacters |-> 2, maxSuggestions |-> 5,
   matchingMode |-> "prefix", caseSensitive |-> FALSE, acceptKeys |-> "both"]

\* an EditorPosition
Position(line, ch) == [line |-> line, ch |-> ch]

\* this.context = null
NoSuggestContext ==
  [open |-> FALSE, start |-> Position(0, 0), end |-> Position(0, 0), query |-> <<>>]

\* nothing triggered and nothing listed yet
NothingShown ==
  [triggered |-> FALSE, start |-> Position(0, 0), end |-> Position(0, 0),
   query |-> <<>>, results |-> <<>>]

ProbeNone ==
  [op |-> "none", text |-> <<>>, context |-> "undefined", idx |-> 0,
   target |-> <<>>, match |-> <<>>, found |-> FALSE, matched |-> FALSE,
   result |-> <<>>, threw |-> FALSE]

NoLast ==
  [seq |-> 0, kind |-> "none", outcome |-> "none", idx |-> 0, at |-> 0,
   selectedText |-> <<>>, context |-> "undefined", replacedText |-> <<>>,
   processed |-> <<>>, inserted |-> <<>>, insertAt |-> 0, cursor |-> 0,
   awaited |-> FALSE]

NoneApplied(pairs) == [total |-> 0, perPair |-> [k \in 1..Len(pairs) |-> 0]]

\* what saveData(this.settings) writes
Snapshot(pairs, stats, sug) ==
  [replacementPairs |-> pairs, statistics |-> stats, suggester |-> sug]

(***************************************************************************)
(* Settings tab: edits of the pair list                                    *)
(***************************************************************************)

\* the enable/disable toggle of a pair row
ToggleEnabled(i) ==
  /\ i \in 1..Len(replacementPairs)
  /\ cmds = <<>>
  /\ replacementPairs' =
       [replacementPairs EXCEPT ![i].enabled = ~replacementPairs[i].enabled]
  /\ persisted' = Snapshot(replacementPairs', statistics, suggester)
  /\ probe' = ProbeNone
  /\ UNCHANGED <<statistics, suggester, doc, selFrom, selTo, clipboard, now, cmds,
                 context, currentSuggestions, shown, last, applied>>

\* the move-down button of pair row i (1-based here)
MoveDown(i) ==
  /\ i \in 1..(Len(replacementPairs) - 1)
  /\ cmds = <<>>
  /\ LET Swap(list, j, k) == [list EXCEPT ![j] = list[k], ![k] = list[j]] IN
       /\ replacementPairs' = Swap(replacementPairs, i, i + 1)
       /\ applied' = [applied EXCEPT !.perPair = Swap(applied.perPair, i, i + 1)]
  /\ persisted' = Snapshot(replacementPairs', statistics, suggester)
  /\ probe' = ProbeNone
  /\ UNCHANGED <<statistics, suggester, doc, selFrom, selTo, clipboard, now, cmds,
                 context, currentSuggestions, shown, last>>

(***************************************************************************)
(* Calls of the matching functions on drawn inputs.  One call is looked at *)
(* per state of the pair list: a call is made when no call is on record,   *)
(* and every edit of the list clears the record.                           *)
(***************************************************************************)

ProbeTexts ==
  { <<"h", "i">>,
    <<"H", "I">>,
    <<"h", "e", "l", "l", "o">>,
    <<"s", "a", "y", " ", "h", "e", "l", "l", "o", "!">>,
    <<"2", "0", "2", "4", "-", "1", "2", "-", "3", "0">>,
    <<"d", "a", "t", "e", ":", " ", "2", "0", "2", "4", "-", "1", "2", "-", "3", "0">>,
    <<"$", "&">>,
    <<"a", "$", "1">> }

ProbeContexts == {"normal", "codeBlock", "heading", "link"}

ProbeTargets ==
  { <<"$", "0">>,
    <<"$", "3", "/", "$", "2", "/", "$", "1">>,
    <<"\\", "$", "1", " ", "m", "e", "a", "n", "s", " ", "$", "1">>,
    <<"\\", "$", "$", "1", " ", "o", "r", " ", "\\", "$", "2">> }

CallFindMatchingPair(text, ctx) ==
  /\ probe.op = "none"
  /\ \E r \in {findMatchingPairWithResult(replacementPairs, text, ctx)} :
       probe' = [ProbeNone EXCEPT !.op = "find", !.text = text, !.context = ctx,
                                  !.found = r.found, !.idx = r.idx,
                                  !.threw = r.match.threw,
                                  !.matched = r.match.matched, !.match = r.match.arr]
  /\ UNCHANGED <<replacementPairs, statistics, suggester, persisted, doc, selFrom,
                 selTo, clipboard, now, cmds, context, currentSuggestions, shown,
                 last, applied>>

CallIsMatch(text, i) ==
  /\ probe.op = "none"
  /\ i \in 1..Len(replacementPairs)
  /\ \E r \in {isMatch(text, replacementPairs[i])} :
       probe' = [ProbeNone EXCEPT !.op = "isMatch", !.text = text, !.idx = i,
                                  !.matched = r.matched, !.match = r.arr,
                                  !.threw = r.threw]
  /\ UNCHANGED <<replacementPairs, statistics, suggester, persisted, doc, selFrom,
                 selTo, clipboard, now, cmds, context, currentSuggestions, shown,
                 last, applied>>

\* applyCaptureGroups(target, match) on the match array that regexMatch
\* returns for text and pair i
CallApplyCaptureGroups(target, text, i) ==
  /\ probe.op = "none"
  /\ i \in 1..Len(replacementPairs)
  /\ replacementPairs[i].isRegex
  /\ \E r \in {regexMatch(text, replacementPairs[i])} :
       /\ r.matched
       /\ probe' = [ProbeNone EXCEPT !.op = "apply", !.text = text, !.idx = i,
                                    !.target = target, !.match = r.arr,
                                    !.result = applyCaptureGroups(target, r.arr)]
  /\ UNCHANGED <<replacementPairs, statistics, suggester, persisted, doc, selFrom,
                 selTo, clipboard, now, cmds, context, currentSuggestions, shown,
                 last, applied>>

\* isContextAllowed(pair, context) for pair i of the list
CallIsContextAllowed(i, ctx) ==
  /\ probe.op = "none"
  /\ i \in 1..Len(replacementPairs)
  /\ probe' = [ProbeNone EXCEPT !.op = "allowed", !.idx = i, !.context = ctx,
                                !.matched = isContextAllowed(replacementPairs[i], ctx)]
  /\ UNCHANGED <<replacementPairs, statistics, suggester, persisted, doc, selFrom,
                 selTo, clipboard, now, cmds, context, currentSuggestions, shown,
                 last, applied>>

MatchPairLists ==
  { <<PairHi, PairHeading, PairEcho>>,
    <<PairHello, PairBroken, PairDate>> }
  \cup { <<PairWith("w", <<"h", "i">>, caseSensitive, wholeWord),
           PairWith("e", <<>>, caseSensitive, wholeWord),
           PairEmptyRegex>> :
          caseSensitive \in {"true", "false", "undefined"},
          wholeWord \in {"true", "false", "undefined"} }

InitMatch ==
  /\ replacementPairs \in MatchPairLists
  /\ statistics = DEFAULT_STATISTICS
  /\ suggester = DEFAULT_SUGGESTER
  /\ persisted = Snapshot(replacementPairs, statistics, suggester)
  /\ doc = <<>>
  /\ selFrom = 0
  /\ selTo = 0
  /\ clipboard = <<>>
  /\ now = 1
  /\ cmds = <<>>
  /\ context = NoSuggestContext
  /\ currentSuggestions = <<>>
  /\ shown = NothingShown
  /\ probe = ProbeNone
  /\ last = NoLast
  /\ applied = NoneApplied(replacementPairs)

NextMatch ==
  \/ \E i \in 1..3 : ToggleEnabled(i)
  \/ \E i \in 1..3 : MoveDown(i)
  \/ \E text \in ProbeTexts, ctx \in ProbeContexts : CallFindMatchingPair(text, ctx)
  \/ \E text \in ProbeTexts, i \in 1..3 : CallIsMatch(text, i)
  \/ \E target \in ProbeTargets, text \in ProbeTexts, i \in 1..3 :
       CallApplyCaptureGroups(target, text, i)
  \/ \E i \in 1..3, ctx \in ProbeContexts : CallIsContextAllowed(i, ctx)

SpecMatch == InitMatch /\ [][NextMatch]_vars

(***************************************************************************)
(* Properties of the matching functions                                    *)
(***************************************************************************)

\* C1: findMatchingPairWithResult(text, context) returns the first pair in
\* list order that is enabled, allowed for the context and matched by
\* isMatch, and null when there is none; a disabled pair is never returned.
C1_FirstAcceptablePairWins ==
  probe.op = "find" =>
    LET K == {k \in 1..Len(replacementPairs) :
                /\ replacementPairs[k].enabled
                /\ isContextAllowed(replacementPairs[k], probe.context)
                /\ isMatch(probe.text, replacementPairs[k]).matched}
    IN  /\ probe.found <=> K # {}
        /\ probe.found =>
             /\ probe.idx \in K
             /\ \A j \in K : probe.idx <= j
             /\ replacementPairs[probe.idx].enabled

\* a call that returned a pair although an earlier pair matches the text but
\* is disabled or barred from the context, and a later pair is acceptable too
C1_Witness ==
  /\ probe.op = "find"
  /\ probe.found
  /\ \E j \in 1..(probe.idx - 1) :
       /\ isMatch(probe.text, replacementPairs[j]).matched
       /\ \/ ~replacementPairs[j].enabled
          \/ ~isContextAllowed(replacementPairs[j], probe.context)
  /\ \E j \in (probe.idx + 1)..Len(replacementPairs) :
       /\ replacementPairs[j].enabled
       /\ isContextAllowed(replacementPairs[j], probe.context)
       /\ isMatch(probe.text, replacementPairs[j]).matched

\* C3: for a non-regex pair with wholeWord = true only an input that is the
\* source itself matches; an input that contains the source as a word among
\* other text does not.
C3_WholeWordJudgesWholeInput ==
  (/\ probe.op = "isMatch"
   /\ ~replacementPairs[probe.idx].isRegex
   /\ replacementPairs[probe.idx].wholeWord = "true"
   /\ probe.matched)
  => probe.text = replacementPairs[probe.idx].source

\* C10: the text of a capture group is copied verbatim; the target $0 yields
\* exactly the entire matched text.
C10_DollarZeroIsMatchedText ==
  (probe.op = "apply" /\ probe.target = <<"$", "0">>)
  => probe.result = probe.match[1]

(***************************************************************************)
(* The pairs of an open note: three templates of the library as the        *)
(* template browser adds them, a regex pair and a literal pair             *)
(***************************************************************************)

TemplateVariable(name, type, dateFormat) ==
  [name |-> name, type |-> type, dateFormat |-> dateFormat, timeFormat |-> "",
   defaultValue |-> <<>>]

\* the pair addTemplateToPairs makes of a library template
TemplatePair(id, source, target, variables) ==
  [NewPair(id, source, target) EXCEPT
     !.caseSensitive = "undefined", !.wholeWord = "undefined",
     !.isTemplate = TRUE, !.templateVariables = variables]

\* library template todo-1
PairTodo ==
  TemplatePair("template-1", <<"t", "d">>, <<"-", " ", "[", " ", "]", " ", "{", "{", "c", "u", "r", "s", "o", "r", "}", "}", " ", "(", "d", "u", "e", ":", " ", "{", "{", "d", "a", "t", "e", "}", "}", ")">>,
               <<TemplateVariable(Str_date, "date", "YYYY-MM-DD")>>)

\* library template code-block-1
PairCodeblock ==
  TemplatePair("template-2", <<"c", "o", "d", "e", "b", "l", "o", "c", "k">>, <<Backtick, Backtick, Backtick, "{", "{", "c", "u", "r", "s", "o", "r", "}", "}", "\n", "{", "{", "c", "l", "i", "p", "b", "o", "a", "r", "d", "}", "}", "\n", Backtick, Backtick, Backtick>>,
               <<TemplateVariable(Str_clipboard, "clipboard", "")>>)

\* library template citation-2
PairCite ==
  TemplatePair("template-3", <<"a", "c", "i", "t", "e">>,
               <<"{", "{", "s", "e", "l", "e", "c", "t", "i", "o", "n", "}", "}", " ", "[", "^", "{", "{", "c", "u", "r", "s", "o", "r", "}", "}", "]", "\n", "\n", "[", "^", "{", "{", "c", "u", "r", "s", "o", "r", "}", "}", "]", ":", " ", "S", "o", "u", "r", "c", "e", ":", " ", ",", " ", "A", "c", "c", "e", "s", "s", "e", "d", ":", " ", "{", "{", "d", "a", "t", "e", "}", "}">>,
               <<TemplateVariable(Str_selection, "selection", ""),
                 TemplateVariable(Str_date, "date", "YYYY-MM-DD")>>)

\* a regex pair that swaps two digits
PairSwap ==
  [NewPair("swap", <<"(", "\\", "d", ")", "-", "(", "\\", "d", ")">>, <<"$", "2", "/", "$", "1">>) EXCEPT !.isRegex = TRUE]

EditPairs == <<PairTodo, PairCodeblock, PairCite, PairSwap, PairHi>>

(***************************************************************************)
(* Usage statistics                                                        *)
(***************************************************************************)

\* updateUsageStatistics without the counter of all replacements
updateUsageStatistics_NoTotal(pairs, stats, i, t) ==
  [replacementPairs |-> [pairs EXCEPT ![i].usageCount = @ + 1, ![i].lastUsedAt = t],
   statistics |-> stats]

\* updateUsageStatistics(pair) up to its await of saveSettings, for the pair
\* at list position i and Date.now() = t
updateUsageStatistics(pairs, stats, i, t) ==
  [replacementPairs |-> [pairs EXCEPT ![i].usageCount = @ + 1, ![i].lastUsedAt = t],
   statistics |-> [stats EXCEPT !.totalReplacements = @ + 1]]

(***************************************************************************)
(* The suggester                                                           *)
(***************************************************************************)

\* onTrigger(cursor, editor, file) for the cursor at offset cursor of text.
\* NoTrigger is the return value null.  TokenStart is the loop: startPos
\* moves left from cursorPos while the character before it is not whitespace.
onTrigger(text, cursor, sug) ==
  LET NoTrigger ==
        [triggered |-> FALSE, start |-> Position(0, 0), end |-> Position(0, 0),
         query |-> <<>>]
      TokenStart(line, cursorPos) ==
        CHOOSE s \in 0..cursorPos :
          /\ s = 0 \/ IsSpaceChar(line[s])
          /\ \A k \in (s + 1)..cursorPos : ~IsSpaceChar(line[k])
  IN
  IF ~sug.enabled THEN NoTrigger
  ELSE LET Info(pos, startPos, line) ==
             IF pos.ch - startPos < sug.minCharacters THEN NoTrigger
             ELSE [triggered |-> TRUE, start |-> Position(pos.line, startPos),
                   end |-> pos, query |-> Substring(line, startPos, pos.ch)]
           Scan(pos, line) == Info(pos, TokenStart(line, pos.ch), line)
           At(pos) == Scan(pos, SplitLines(text)[pos.line + 1])
       IN  At(OffsetToPos(text, cursor))

\* the list positions 1..n
Positions(n) == [k \in 1..n |-> k]

prefixMatch(query, pairs, ks, caseSensitive) ==
  LET normalizedQuery == IF caseSensitive THEN query ELSE ToLowerCase(query)
      Keep(k) == StartsWith(IF caseSensitive THEN pairs[k].source
                            ELSE ToLowerCase(pairs[k].source),
                            normalizedQuery)
  IN  SelectSeq(ks, Keep)

\* the loop of calculateFuzzyScore from queryIndex qi and textIndex ti on
RECURSIVE FuzzyFrom(_, _, _, _, _)
FuzzyFrom(query, text, qi, ti, score) ==
  IF qi < Len(query) /\ ti < Len(text)
  THEN IF query[qi + 1] = text[ti + 1]
       THEN FuzzyFrom(query, text, qi + 1, ti + 1,
                      score + 1
                      + (IF qi > 0 /\ query[qi] = text[ti] THEN 2 ELSE 0)
                      + (IF ti = qi THEN 3 ELSE 0))
       ELSE FuzzyFrom(query, text, qi, ti + 1, score)
  ELSE IF qi = Len(query) THEN score ELSE 0

calculateFuzzyScore(query, text) == FuzzyFrom(query, text, 0, 0, 0)

\* fuzzyMatch without its sort
fuzzyMatch_Unsorted(query, pairs, ks, caseSensitive) ==
  LET normalizedQuery == IF caseSensitive THEN query ELSE ToLowerCase(query)
      Kept(k) == calculateFuzzyScore(normalizedQuery,
                                     IF caseSensitive THEN pairs[k].source
                                     ELSE ToLowerCase(pairs[k].source)) > 0
  IN  SelectSeq(ks, Kept)

\* scored.filter(score > 0).sort((a, b) => b.score - a.score): the sort is
\* stable, pairs of equal score keep their list order
fuzzyMatch(query, pairs, ks, caseSensitive) ==
  LET normalizedQuery == IF caseSensitive THEN query ELSE ToLowerCase(query)
      Score(k) == calculateFuzzyScore(normalizedQuery,
                                      IF caseSensitive THEN pairs[k].source
                                      ELSE ToLowerCase(pairs[k].source))
      Kept(k) == Score(k) > 0
      Sorted(kept) ==
        [r \in 1..Len(kept) |->
           kept[CHOOSE a \in 1..Len(kept) :
                  Cardinality({b \in 1..Len(kept) :
                                 \/ Score(kept[b]) > Score(kept[a])
                                 \/ Score(kept[b]) = Score(kept[a]) /\ b < a}) = r - 1]]
  IN  Sorted(SelectSeq(ks, Kept))

regexPrefixMatch(query, pairs, ks) ==
  LET Keep(k) == /\ validateRegex(pairs[k].source, pairs[k].regexFlags)
                 /\ RegexTest(query, pairs[k].source, EffectiveFlags(pairs[k]))
  IN  SelectSeq(ks, Keep)

\* getSuggestions with the regex matches put first
getSuggestions_RegexFirst(query, pairs, sug) ==
  LET Regular(k) == pairs[k].enabled /\ ~pairs[k].isRegex
      Regex(k) == pairs[k].enabled /\ pairs[k].isRegex
      Limit(allMatches) == SubSeq(allMatches, 1, Min(Len(allMatches), sug.maxSuggestions))
  IN  Limit(regexPrefixMatch(query, pairs, SelectSeq(Positions(Len(pairs)), Regex))
            \o (IF sug.matchingMode = "prefix"
                THEN prefixMatch(query, pairs, SelectSeq(Positions(Len(pairs)), Regular),
                                 sug.caseSensitive)
                ELSE fuzzyMatch(query, pairs, SelectSeq(Positions(Len(pairs)), Regular),
                                sug.caseSensitive)))

\* getSuggestions(context): the list it returns and stores in
\* this.currentSuggestions, as list positions
getSuggestions(query, pairs, sug) ==
  LET Regular(k) == pairs[k].enabled /\ ~pairs[k].isRegex
      Regex(k) == pairs[k].enabled /\ pairs[k].isRegex
      Limit(allMatches) == SubSeq(allMatches, 1, Min(Len(allMatches), sug.maxSuggestions))
  IN  Limit((IF sug.matchingMode = "prefix"
             THEN prefixMatch(query, pairs, SelectSeq(Positions(Len(pairs)), Regular),
                              sug.caseSensitive)
             ELSE fuzzyMatch(query, pairs, SelectSeq(Positions(Len(pairs)), Regular),
                             sug.caseSensitive))
            \o regexPrefixMatch(query, pairs, SelectSeq(Positions(Len(pairs)), Regex)))

\* the replacement text selectSuggestion builds for a pair and the query of
\* the trigger context
SuggestionText(pair, query) ==
  IF pair.isRegex /\ query # <<>>
  THEN LET Apply(match) ==
             IF match.ok THEN applyCaptureGroups(pair.target, match.arr)
             ELSE pair.target
       IN  Apply(StringMatch(query, pair.source, EffectiveFlags(pair)))
  ELSE pair.target

(***************************************************************************)
(* The replace command                                                     *)
(***************************************************************************)

\* new Date() when the clock reads t
DateAt(t) ==
  [year |-> 2024, month |-> 11, day |-> 30, hours |-> 9, minutes |-> t, seconds |-> 0]

\* detectContext(editor, cursor.line, cursor.ch) for the cursor at an offset
ContextAt(text, offset) ==
  LET At(pos) == detectContext(text, pos.line, pos.ch)
  IN  At(OffsetToPos(text, offset))

\* process() has not been called
NoProcess == [result |-> <<>>, todo |-> <<>>, processedVars |-> <<>>]

\* The dispatch of replaceSelectedText on the kind of the matched pair.
\* Resolved is processTemplate once process() has come to st: suspended at a
\* clipboard read, or returned and its markers stripped.
Dispatch(pair, match, selectedText, date) ==
  IF pair.isTemplate
  THEN LET Resolved(st) ==
             IF st.todo # <<>>
             THEN [await |-> TRUE, st |-> st, processed |-> <<>>, replacement |-> <<>>]
             ELSE [await |-> FALSE, st |-> st, processed |-> st.result,
                   replacement |-> FinishTemplate(st.result)]
       IN  Resolved(ProcessStart(pair.target, pair.templateVariables, selectedText, date))
  ELSE [await |-> FALSE, st |-> NoProcess, processed |-> <<>>,
        replacement |-> IF pair.isRegex /\ match.isArray
                        THEN applyCaptureGroups(pair.target, match.arr)
                        ELSE pair.target]

\* positionCursorAfterTemplate(editor, processedTemplate) with the cursor at
\* offset cursor of text: the offset the cursor is left at
positionCursorAfterTemplate(text, cursor, processedTemplate) ==
  LET Target(currentCursor, lines) ==
        Position(currentCursor.line + (Len(lines) - 1),
                 IF Len(lines) - 1 = 0
                 THEN (currentCursor.ch - Len(processedTemplate)) + Len(lines[Len(lines)])
                 ELSE Len(lines[Len(lines)]))
      Place(cursorPos) ==
        IF cursorPos = -1 THEN cursor
        ELSE PosToOffset(text, Target(OffsetToPos(text, cursor),
                                      SplitLines(Substring(processedTemplate, 0, cursorPos))))
  IN  Place(calculateCursorPosition(processedTemplate))

\* a call of saveData that has not completed
Saving(snapshot) ==
  [phase |-> "saving", idx |-> 0, selectedText |-> <<>>, context |-> "undefined",
   st |-> NoProcess, snapshot |-> snapshot]

\* a replace command suspended in getClipboardContent
Reading(i, selectedText, ctx, st) ==
  [phase |-> "clipboard", idx |-> i, selectedText |-> selectedText, context |-> ctx,
   st |-> st, snapshot |-> Snapshot(<<>>, DEFAULT_STATISTICS, DEFAULT_SUGGESTER)]

Remove(list, k) == SubSeq(list, 1, k - 1) \o SubSeq(list, k + 1, Len(list))

\* The host after the editor has reported a change of the text or of the
\* cursor: it calls onTrigger for the cursor; on trigger info it sets
\* this.context and calls getSuggestions, on null it sets this.context to
\* null and does not call getSuggestions
EditorChanged(pairs) ==
  \E t \in {onTrigger(doc', selTo', suggester)} :
    IF t.triggered
    THEN \E results \in {getSuggestions(t.query, pairs, suggester)} :
           /\ context' = [open |-> TRUE, start |-> t.start, end |-> t.end,
                          query |-> t.query]
           /\ currentSuggestions' = results
           /\ shown' = [triggered |-> TRUE, start |-> t.start, end |-> t.end,
                        query |-> t.query, results |-> results]
    ELSE /\ context' = NoSuggestContext
         /\ currentSuggestions' = currentSuggestions
         /\ shown' = [NothingShown EXCEPT !.results = shown.results]

\* replaceSelectedText from editor.replaceSelection on, for the pair at list
\* position i; rest are the calls that stay suspended
Substitute(i, selectedText, ctx, processed, replacement, awaited, rest) ==
  /\ doc' = ReplaceRangeText(doc, selFrom, selTo, replacement)
  /\ \E cursor \in {IF replacementPairs[i].isTemplate
                    THEN positionCursorAfterTemplate(doc', selFrom + Len(replacement),
                                                     replacement)
                    ELSE selFrom + Len(replacement)} :
       /\ selFrom' = cursor
       /\ selTo' = cursor
       /\ last' = [seq |-> last.seq + 1, kind |-> "command", outcome |-> "replaced",
                   idx |-> i, at |-> now, selectedText |-> selectedText,
                   context |-> ctx, replacedText |-> Substring(doc, selFrom, selTo),
                   processed |-> processed, inserted |-> replacement,
                   insertAt |-> selFrom, cursor |-> cursor, awaited |-> awaited]
  /\ \E u \in {updateUsageStatistics(replacementPairs, statistics, i, now)} :
       /\ replacementPairs' = u.replacementPairs
       /\ statistics' = u.statistics
       /\ cmds' = Append(rest, Saving(Snapshot(u.replacementPairs, u.statistics,
                                               suggester)))
  /\ applied' = [total |-> applied.total + 1,
                 perPair |-> [applied.perPair EXCEPT ![i] = @ + 1]]
  /\ EditorChanged(replacementPairs')

\* replaceSelectedText returns without a substitution
Idle(outcome, selectedText, ctx) ==
  /\ last' = [NoLast EXCEPT !.seq = last.seq + 1, !.kind = "command",
                            !.outcome = outcome, !.at = now,
                            !.selectedText = selectedText, !.context = ctx]
  /\ UNCHANGED <<replacementPairs, statistics, doc, selFrom, selTo, cmds, context,
                 currentSuggestions, shown, applied>>

\* replaceSelectedText is suspended in the clipboard read of process()
Suspend(i, selectedText, ctx, st) ==
  /\ cmds' = Append(cmds, Reading(i, selectedText, ctx, st))
  /\ last' = [NoLast EXCEPT !.seq = last.seq + 1, !.kind = "command",
                            !.outcome = "pending", !.idx = i, !.at = now,
                            !.selectedText = selectedText, !.context = ctx]
  /\ UNCHANGED <<replacementPairs, statistics, doc, selFrom, selTo, context,
                 currentSuggestions, shown, applied>>

\* number of user events of a run, and of calls suspended at the same time
MaxEvents == 3
MaxInFlight == 2

\* the command "Replace selected text", up to its first await on the host
ReplaceCommand ==
  /\ now <= MaxEvents
  /\ Len(cmds) < MaxInFlight
  /\ now' = now + 1
  /\ \E selectedText \in {Substring(doc, selFrom, selTo)} :
       IF selectedText = <<>> THEN Idle("empty", selectedText, "undefined")
       ELSE \E ctx \in {ContextAt(doc, selFrom)} :
            \E r \in {findMatchingPairWithResult(replacementPairs, selectedText, ctx)} :
              IF ~r.found THEN Idle("nomatch", selectedText, ctx)
              ELSE \E d \in {Dispatch(replacementPairs[r.idx], r.match, selectedText,
                                      DateAt(now))} :
                     IF d.await THEN Suspend(r.idx, selectedText, ctx, d.st)
                     ELSE Substitute(r.idx, selectedText, ctx, d.processed,
                                     d.replacement, FALSE, cmds)
  /\ UNCHANGED <<suggester, persisted, clipboard, probe>>

\* navigator.clipboard.readText() of suspended command k settles: granted
\* with the content of the clipboard, or refused; the command runs on
ClipboardDone(k, granted) ==
  /\ k \in 1..Len(cmds)
  /\ cmds[k].phase = "clipboard"
  /\ \E st \in {ProcessResume(cmds[k].st,
                              IF granted THEN sanitizeValue(clipboard) ELSE <<>>,
                              replacementPairs[cmds[k].idx].templateVariables,
                              cmds[k].selectedText, DateAt(now))} :
       IF st.todo # <<>>
       THEN /\ cmds' = [cmds EXCEPT ![k].st = st]
            /\ UNCHANGED <<replacementPairs, statistics, doc, selFrom, selTo, context,
                           currentSuggestions, shown, last, applied>>
       ELSE Substitute(cmds[k].idx, cmds[k].selectedText, cmds[k].context, st.result,
                       FinishTemplate(st.result), TRUE, Remove(cmds, k))
  /\ UNCHANGED <<suggester, persisted, clipboard, now, probe>>

\* saveData of suspended call k completes
SaveDone(k) ==
  /\ k \in 1..Len(cmds)
  /\ cmds[k].phase = "saving"
  /\ persisted' = cmds[k].snapshot
  /\ cmds' = Remove(cmds, k)
  /\ UNCHANGED <<replacementPairs, statistics, suggester, doc, selFrom, selTo,
                 clipboard, now, context, currentSuggestions, shown, probe, last,
                 applied>>

(***************************************************************************)
(* Accepting a suggestion                                                  *)
(***************************************************************************)

\* this.context?.editor is there
HasEditor_Always(ctx) == TRUE

\* this.context?.editor is there
HasEditor(ctx) == ctx.open

\* a handler that takes its key whatever acceptKeys says
KeyEnabled_Any(acceptKeys, key) == TRUE

\* the test of acceptKeys in the handler of a key
KeyEnabled(acceptKeys, key) ==
  IF key = "Tab" THEN acceptKeys \in {"tab", "both"}
  ELSE acceptKeys \in {"enter", "both"}

\* selectSuggestion and the handler return without a replacement
Declined(outcome) ==
  /\ last' = [NoLast EXCEPT !.seq = last.seq + 1, !.kind = "suggest",
                            !.outcome = outcome, !.at = now]
  /\ UNCHANGED <<replacementPairs, statistics, doc, selFrom, selTo, cmds, context,
                 currentSuggestions, shown, applied>>

\* selectSuggestion(pair, evt) for the pair at list position i
selectSuggestion(i, key) ==
  IF key = "Enter" /\ suggester.acceptKeys \notin {"enter", "both"}
  THEN Declined("ignored")
  ELSE IF ~HasEditor(context) THEN Declined("ignored")
  ELSE \E replacement \in {SuggestionText(replacementPairs[i], context.query)},
          from \in {PosToOffset(doc, context.start)},
          to \in {PosToOffset(doc, context.end)} :
         /\ doc' = ReplaceRangeText(doc, from, to, replacement)
         /\ \E cursor \in {PosToOffset(doc', Position(context.start.line,
                                                     context.start.ch + Len(replacement)))} :
              /\ selFrom' = cursor
              /\ selTo' = cursor
              /\ last' = [NoLast EXCEPT
                            !.seq = last.seq + 1, !.kind = "suggest",
                            !.outcome = "replaced", !.idx = i, !.at = now,
                            !.selectedText = context.query,
                            !.replacedText = Substring(doc, from, to),
                            !.inserted = replacement, !.insertAt = from,
                            !.cursor = cursor]
         /\ \E u \in {updateUsageStatistics(replacementPairs, statistics, i, now)} :
              /\ replacementPairs' = u.replacementPairs
              /\ statistics' = u.statistics
              /\ cmds' = Append(cmds, Saving(Snapshot(u.replacementPairs, u.statistics,
                                                      suggester)))
         /\ applied' = [total |-> applied.total + 1,
                        perPair |-> [applied.perPair EXCEPT ![i] = @ + 1]]
         /\ EditorChanged(replacementPairs')

\* The handler the constructor registers for Tab and for Enter.  The scope of
\* the handlers is the popup's; the handler is run here whenever the key is
\* pressed, also when the popup is closed.
AcceptKey(key) ==
  /\ now <= MaxEvents
  /\ Len(cmds) < MaxInFlight
  /\ now' = now + 1
  /\ IF KeyEnabled(suggester.acceptKeys, key) /\ Len(currentSuggestions) > 0
     THEN selectSuggestion(currentSuggestions[1], key)
     ELSE Declined("passed")
  /\ UNCHANGED <<suggester, persisted, clipboard, probe>>

(***************************************************************************)
(* The user at the editor and in the settings tab                          *)
(***************************************************************************)

\* offsets at which a run of characters that are not whitespace starts
WordStarts(text) ==
  {i \in 0..(Len(text) - 1) :
     ~IsSpaceChar(text[i + 1]) /\ (i = 0 \/ IsSpaceChar(text[i]))}

\* the offset at which the run that starts at offset i ends
WordEnd(text, i) ==
  CHOOSE j \in i..Len(text) :
    /\ j = Len(text) \/ IsSpaceChar(text[j + 1])
    /\ \A k \in (i + 1)..j : ~IsSpaceChar(text[k])

\* a double click on the word that starts at offset from selects it
SelectWord(from) ==
  /\ now <= MaxEvents
  /\ from \in WordStarts(doc)
  /\ now' = now + 1
  /\ selFrom' = from
  /\ selTo' = WordEnd(doc, from)
  /\ doc' = doc
  /\ EditorChanged(replacementPairs)
  /\ UNCHANGED <<replacementPairs, statistics, suggester, persisted, clipboard, cmds,
                 probe, last, applied>>

\* a click behind the word that starts at offset from puts the cursor there
ClickAfterWord(from) ==
  /\ now <= MaxEvents
  /\ from \in WordStarts(doc)
  /\ now' = now + 1
  /\ selFrom' = WordEnd(doc, from)
  /\ selTo' = WordEnd(doc, from)
  /\ doc' = doc
  /\ EditorChanged(replacementPairs)
  /\ UNCHANGED <<replacementPairs, statistics, suggester, persisted, clipboard, cmds,
                 probe, last, applied>>

\* the characters the user types
TypedChars == {"i", "d", "2", " "}

\* a character is typed: it replaces the selection
TypeChar(c) ==
  /\ now <= MaxEvents
  /\ now' = now + 1
  /\ doc' = ReplaceRangeText(doc, selFrom, selTo, <<c>>)
  /\ selFrom' = selFrom + 1
  /\ selTo' = selFrom + 1
  /\ EditorChanged(replacementPairs)
  /\ UNCHANGED <<replacementPairs, statistics, suggester, persisted, clipboard, cmds,
                 probe, last, applied>>

\* the toggle "Enable auto-complete" of the settings tab
ToggleSuggester ==
  /\ now <= MaxEvents
  /\ Len(cmds) < MaxInFlight
  /\ now' = now + 1
  /\ suggester' = [suggester EXCEPT !.enabled = ~suggester.enabled]
  /\ cmds' = Append(cmds, Saving(Snapshot(replacementPairs, statistics, suggester')))
  /\ UNCHANGED <<replacementPairs, statistics, persisted, doc, selFrom, selTo,
                 clipboard, context, currentSuggestions, shown, probe, last, applied>>

\* the button "Reset statistics" of the settings tab
ResetStatistics ==
  /\ now <= MaxEvents
  /\ Len(cmds) < MaxInFlight
  /\ now' = now + 1
  /\ statistics' = [totalReplacements |-> 0, lastResetAt |-> now]
  /\ replacementPairs' = [k \in 1..Len(replacementPairs) |->
                            [replacementPairs[k] EXCEPT !.usageCount = 0,
                                                        !.lastUsedAt = 0]]
  /\ cmds' = Append(cmds, Saving(Snapshot(replacementPairs', statistics', suggester)))
  /\ applied' = NoneApplied(replacementPairs)
  /\ UNCHANGED <<suggester, persisted, doc, selFrom, selTo, clipboard, context,
                 currentSuggestions, shown, probe, last>>

\* the notes that are open when a run starts; the cursor is at the end
EditDocs ==
  { <<"h", "i", " ", "a", "1", "-", "2", " ", "1", "-", " ", "h">>,
    <<"t", "d", " ", "c", "o", "d", "e", "b", "l", "o", "c", "k", " ", "a", "c", "i", "t", "e", " ", "t">> }

InitEdit ==
  /\ replacementPairs = EditPairs
  /\ statistics = DEFAULT_STATISTICS
  /\ suggester = DEFAULT_SUGGESTER
  /\ persisted = Snapshot(replacementPairs, statistics, suggester)
  /\ doc \in EditDocs
  /\ selFrom = Len(doc)
  /\ selTo = Len(doc)
  /\ clipboard = <<"x", "<", "y">>
  /\ now = 1
  /\ cmds = <<>>
  /\ context = NoSuggestContext
  /\ currentSuggestions = <<>>
  /\ shown = NothingShown
  /\ probe = ProbeNone
  /\ last = NoLast
  /\ applied = NoneApplied(replacementPairs)

NextEdit ==
  \/ \E from \in 0..Len(doc) : SelectWord(from)
  \/ \E from \in 0..Len(doc) : ClickAfterWord(from)
  \/ \E c \in TypedChars : TypeChar(c)
  \/ ReplaceCommand
  \/ \E k \in 1..MaxInFlight, granted \in BOOLEAN : ClipboardDone(k, granted)
  \/ \E k \in 1..MaxInFlight : SaveDone(k)
  \/ \E key \in {"Tab", "Enter"} : AcceptKey(key)
  \/ ToggleSuggester
  \/ ResetStatistics

SpecEdit == InitEdit /\ [][NextEdit]_vars

(***************************************************************************)
(* Properties of the replace command and of the suggester                  *)
(***************************************************************************)

C4_CountersCountSubstitutions ==
  /\ statistics.totalReplacements = applied.total
  /\ \A i \in 1..Len(replacementPairs) :
       /\ replacementPairs[i].usageCount = applied.perPair[i]
       /\ applied.perPair[i] > 0 => replacementPairs[i].lastUsedAt > 0
  /\ (last.outcome = "replaced" /\ applied.perPair[last.idx] > 0)
     => replacementPairs[last.idx].lastUsedAt = last.at

\* two substitutions whose calls of saveSettings are both still suspended
C4_Witness ==
  /\ applied.total = 2
  /\ Len(cmds) = 2
  /\ \A k \in 1..Len(cmds) : cmds[k].phase = "saving"
  /\ last.outcome = "replaced"

\* C5: the text a replace command replaces is the text it read and matched.
C5_ReplacedTextIsMatchedText ==
  (last.kind = "command" /\ last.outcome = "replaced")
  => last.replacedText = last.selectedText

\* C6: an accept key that applies a replacement applies the first pair of
\* the list the most recent getSuggestions call returned, to the token span
\* onTrigger returned at the most recent change of the editor; when onTrigger
\* returned null there, no replacement is applied.
C6_AcceptAppliesCurrentList ==
  [][(last'.seq # last.seq /\ last'.kind = "suggest" /\ last'.outcome = "replaced")
     => /\ shown.triggered
        /\ shown.results # <<>>
        /\ last'.idx = shown.results[1]
        /\ last'.insertAt = PosToOffset(doc, shown.start)
        /\ last'.replacedText = shown.query]_vars

\* an accept key that did nothing: onTrigger had returned null at the last
\* change of the editor while the list of an older query was still stored
C6_Witness ==
  /\ last.kind = "suggest"
  /\ last.outcome = "ignored"
  /\ ~shown.triggered
  /\ currentSuggestions # <<>>

\* C7: after the command has substituted a template pair whose target has a
\* cursor marker, the cursor is at the start of the insertion plus the offset
\* of the first marker in the resolved string; without a marker it is at the
\* end of the insertion.
C7_CursorAtFirstMarker ==
  (last.kind = "command" /\ last.outcome = "replaced"
   /\ replacementPairs[last.idx].isTemplate)
  => last.cursor = IF Includes(replacementPairs[last.idx].target, CURSOR_MARKER)
                   THEN last.insertAt + IndexOf(last.processed, CURSOR_MARKER)
                   ELSE last.insertAt + Len(last.inserted)

\* C8: the text the command inserts for a template pair holds no cursor
\* marker and no tab-stop marker.
C8_NoMarkerInserted ==
  (last.kind = "command" /\ last.outcome = "replaced"
   /\ replacementPairs[last.idx].isTemplate)
  => /\ ~Includes(last.inserted, CURSOR_MARKER)
     /\ \A p \in 0..Len(last.inserted) : TabStopLenAt(last.inserted, p) = 0

\* C9: the text an accepted suggestion inserts is a text the dispatch of the
\* replace command produces for the same pair and the query as the selected
\* text (for a template that reads the clipboard: with the read granted or
\* refused).
C9_SuggestionInsertsCommandText ==
  (last.kind = "suggest" /\ last.outcome = "replaced")
  => LET pair == replacementPairs[last.idx]
         Finished(st) == FinishTemplate(st.result)
         Texts(d) ==
           IF d.await
           THEN {Finished(ProcessResume(d.st, value, pair.templateVariables,
                                        last.selectedText, DateAt(last.at))) :
                   value \in {sanitizeValue(clipboard), <<>>}}
           ELSE {d.replacement}
     IN  last.inserted \in Texts(Dispatch(pair, isMatch(last.selectedText, pair),
                                          last.selectedText, DateAt(last.at)))

(***************************************************************************)
(* Calls of TemplateProcessor.process on drawn inputs.  The clock and the  *)
(* clipboard are what they are when the call is made; the read of the      *)
(* clipboard is granted or refused by the host.                            *)
(***************************************************************************)

\* process() run to its return: every read of the clipboard settles with clip
process(template, variables, selectedText, date, clip) ==
  LET RECURSIVE Settle(_)
      Settle(st) ==
        IF st.todo = <<>> THEN st.result
        ELSE Settle(ProcessResume(st, clip, variables, selectedText, date))
  IN  Settle(ProcessStart(template, variables, selectedText, date))

ProcessTemplates ==
  { <<"S", "e", "l", "e", "c", "t", "e", "d", ":", " ", "{", "{", "s", "e", "l", "e", "c", "t", "i", "o", "n", "}", "}">>,
    <<"{", "{", "s", "e", "l", "e", "c", "t", "i", "o", "n", "}", "}", " ", "o", "n", " ", "{", "{", "d", "a", "t", "e", "}", "}">>,
    <<"{", "{", "d", "a", "t", "e", "}", "}", ":", " ", "{", "{", "s", "e", "l", "e", "c", "t", "i", "o", "n", "}", "}">>,
    <<"[", "{", "{", "s", "e", "l", "e", "c", "t", "i", "o", "n", "}", "}", "]", "(", "{", "{", "s", "e", "l", "e", "c", "t", "i", "o", "n", "}", "}", ")">>,
    <<"{", "{", "c", "l", "i", "p", "b", "o", "a", "r", "d", "}", "}", " ", "{", "{", "s", "e", "l", "e", "c", "t", "i", "o", "n", "}", "}", "{", "{", "c", "u", "r", "s", "o", "r", "}", "}">> }

ProcessSelections ==
  { <<>>,
    <<"t", "e", "s", "t", " ", "t", "e", "x", "t">>,
    <<"{", "{", "d", "a", "t", "e", "}", "}">>,
    <<"{", "{", "c", "u", "r", "s", "o", "r", "}", "}">>,
    <<"$", "&">> }

\* the variables argument: none (built-in names only), or definitions as
\* the self-test and the library templates pass them
ProcessVariables(kind) ==
  IF kind = "declared"
  THEN <<TemplateVariable(Str_selection, "selection", ""),
         TemplateVariable(Str_date, "date", "DD/MM/YYYY")>>
  ELSE <<>>

\* what getClipboardContent() returns
ClipboardContent(granted) == IF granted THEN sanitizeValue(clipboard) ELSE <<>>

CallProcess(template, kind, selectedText, granted) ==
  /\ probe' = [ProbeNone EXCEPT
                 !.op = "process", !.target = template, !.context = kind,
                 !.text = selectedText, !.found = granted, !.idx = now,
                 !.result = process(template, ProcessVariables(kind), selectedText,
                                    DateAt(now), ClipboardContent(granted))]
  /\ UNCHANGED <<replacementPairs, statistics, suggester, persisted, doc, selFrom,
                 selTo, clipboard, now, cmds, context, currentSuggestions, shown,
                 last, applied>>

InitTemplate ==
  /\ replacementPairs = <<>>
  /\ statistics = DEFAULT_STATISTICS
  /\ suggester = DEFAULT_SUGGESTER
  /\ persisted = Snapshot(replacementPairs, statistics, suggester)
  /\ doc = <<>>
  /\ selFrom = 0
  /\ selTo = 0
  /\ clipboard \in {<<"x", "<", "y">>, <<"{", "{", "s", "e", "l", "e", "c", "t", "i", "o", "n", "}", "}">>}
  /\ now \in {1, 2}
  /\ cmds = <<>>
  /\ context = NoSuggestContext
  /\ currentSuggestions = <<>>
  /\ shown = NothingShown
  /\ probe = ProbeNone
  /\ last = NoLast
  /\ applied = NoneApplied(replacementPairs)

NextTemplate ==
  \E template \in ProcessTemplates, kind \in {"builtin", "declared"},
     selectedText \in ProcessSelections, granted \in BOOLEAN :
    CallProcess(template, kind, selectedText, granted)

SpecTemplate == InitTemplate /\ [][NextTemplate]_vars

\* C11: process() puts the selection text, as it is, where the template has
\* a {{selection}} marker: its output is the output for an inert selection
\* (a single character that occurs in no template and no value) with the
\* selection text put in place of that character, whatever the selection
\* holds and wherever the markers stand.
C11_SelectionInsertedLiterally ==
  LET RECURSIVE Fill(_, _)
      Fill(s, text) ==
        IF s = <<>> THEN <<>>
        ELSE (IF Head(s) = "#" THEN text ELSE <<Head(s)>>) \o Fill(Tail(s), text)
  IN  probe.op = "process"
      => probe.result =
           Fill(process(probe.target, ProcessVariables(probe.context), <<"#">>,
                        DateAt(probe.idx), ClipboardContent(probe.found)),
                probe.text)

(***************************************************************************)
(* The settings tab: operations on the list of pairs.  Every operation     *)
(* ends with saveSettings, whose write is in flight until SaveDone.  An    *)
(* open import dialog is a suspended handler as well: it holds the parsed  *)
(* pairs until one of its buttons is clicked.  The operation that ran last *)
(* is on record with its arguments; last.seq counts the operations, and    *)
(* last.inserted lists the ids that the operations have given to new       *)
(* pairs.  now is the latest reading of Date.now(): between two readings   *)
(* the clock has either advanced or not.                                   *)
(***************************************************************************)

\* the record of a settings operation
Operation(op, idx) == [ProbeNone EXCEPT !.op = op, !.idx = idx]

\* the button "Add pair"
addNewPair ==
  /\ last.seq < MaxEvents
  /\ Len(cmds) < MaxInFlight
  /\ now' \in {now, now + 1}
  /\ replacementPairs' = Append(replacementPairs, NewPair(<<"pair", now'>>, <<>>, <<>>))
  /\ cmds' = Append(cmds, Saving(Snapshot(replacementPairs', statistics, suggester)))
  /\ last' = [last EXCEPT !.seq = @ + 1,
                          !.inserted = Append(@, replacementPairs'[Len(replacementPairs')].id)]
  /\ probe' = Operation("addNewPair", Len(replacementPairs'))
  /\ UNCHANGED <<statistics, suggester, persisted, doc, selFrom, selTo, clipboard,
                 context, currentSuggestions, shown, applied>>

\* TemplateBrowserModal.importTemplate for a template of the library (given
\* as the pair made of it); rnd is the reading of Math.random()
importTemplate(template, rnd) ==
  /\ last.seq < MaxEvents
  /\ Len(cmds) < MaxInFlight
  /\ now' \in {now, now + 1}
  /\ replacementPairs' =
       Append(replacementPairs,
              TemplatePair(<<"template", now', rnd>>, template.source, template.target,
                           template.templateVariables))
  /\ cmds' = Append(cmds, Saving(Snapshot(replacementPairs', statistics, suggester)))
  /\ last' = [last EXCEPT !.seq = @ + 1,
                          !.inserted = Append(@, replacementPairs'[Len(replacementPairs')].id)]
  /\ probe' = Operation("importTemplate", Len(replacementPairs'))
  /\ UNCHANGED <<statistics, suggester, persisted, doc, selFrom, selTo, clipboard,
                 context, currentSuggestions, shown, applied>>

\* RegexTemplateModal.importTemplate for the template date-iso-to-eu
importRegexTemplate ==
  /\ last.seq < MaxEvents
  /\ Len(cmds) < MaxInFlight
  /\ now' \in {now, now + 1}
  /\ replacementPairs' =
       Append(replacementPairs,
              [NewPair(<<"pair", now'>>, PairDate.source, PairDate.target)
                 EXCEPT !.isRegex = TRUE])
  /\ cmds' = Append(cmds, Saving(Snapshot(replacementPairs', statistics, suggester)))
  /\ last' = [last EXCEPT !.seq = @ + 1,
                          !.inserted = Append(@, replacementPairs'[Len(replacementPairs')].id)]
  /\ probe' = Operation("importRegexTemplate", Len(replacementPairs'))
  /\ UNCHANGED <<statistics, suggester, persisted, doc, selFrom, selTo, clipboard,
                 context, currentSuggestions, shown, applied>>

\* the toggle "Enable regex mode" in the advanced options of pair row i
ToggleRegexMode(i) ==
  /\ last.seq < MaxEvents
  /\ Len(cmds) < MaxInFlight
  /\ i \in 1..Len(replacementPairs)
  /\ last' = [last EXCEPT !.seq = @ + 1]
  /\ replacementPairs' =
       [replacementPairs EXCEPT ![i].isRegex = ~replacementPairs[i].isRegex]
  /\ cmds' = Append(cmds, Saving(Snapshot(replacementPairs', statistics, suggester)))
  /\ probe' = Operation("toggleRegex", i)
  /\ UNCHANGED <<statistics, suggester, persisted, doc, selFrom, selTo, clipboard,
                 now, context, currentSuggestions, shown, applied>>

\* What JSON.parse makes of the chosen file: kind is "invalid" when it
\* throws, "object" for a value that is no array, "array" for an array; an
\* element is an object whose fields are those of pair but the missing ones
ImportPayloads ==
  LET Element(pair, missing) == [pair |-> pair, missing |-> missing] IN
  { [kind |-> "invalid", items |-> <<>>],
    [kind |-> "object", items |-> <<Element(PairHi, {})>>],
    [kind |-> "array", items |-> <<>>],
    [kind |-> "array", items |-> <<Element(PairEcho, {})>>],
    [kind |-> "array", items |-> <<Element(PairHi, {}), Element(PairHeading, {})>>],
    [kind |-> "array",
     items |-> <<Element(PairEcho, {}), Element(NewPair("empty", <<>>, <<"x">>), {})>>],
    [kind |-> "array", items |-> <<Element(PairHi, {"target"})>>] }

\* the checks of importSettings on the array only
PayloadAccepted_ArrayOnly(payload) == payload.kind = "array"

\* the checks of importSettings before it shows the dialog
PayloadAccepted(payload) ==
  LET \* !pair.source || !pair.target
      Rejects(element) ==
        \/ "source" \in element.missing
        \/ element.pair.source = <<>>
        \/ "target" \in element.missing
        \/ element.pair.target = <<>>
  IN  /\ payload.kind = "array"
      /\ \A k \in 1..Len(payload.items) : ~Rejects(payload.items[k])

\* The onchange handler of importSettings from the point where file.text()
\* has settled (nothing of the settings is read before it).  The dialog of
\* showImportDialog, open, is a suspended handler that holds importedPairs.
importSettings(payload) ==
  /\ last.seq < MaxEvents
  /\ Len(cmds) < MaxInFlight
  /\ last' = [last EXCEPT !.seq = @ + 1]
  /\ \E ok \in {PayloadAccepted(payload)} :
       /\ probe' = [Operation("importSettings", 0) EXCEPT
                      !.context = payload.kind, !.match = payload.items, !.found = ok]
       /\ cmds' = IF ok
                  THEN Append(cmds, [phase |-> "dialog",
                                     importedPairs |-> [k \in 1..Len(payload.items) |->
                                                          payload.items[k].pair]])
                  ELSE cmds
  /\ UNCHANGED <<replacementPairs, statistics, suggester, persisted, doc, selFrom,
                 selTo, clipboard, now, context, currentSuggestions, shown, applied>>

\* the button "Replace" of dialog k
ImportReplace(k) ==
  /\ last.seq < MaxEvents
  /\ k \in 1..Len(cmds)
  /\ cmds[k].phase = "dialog"
  /\ last' = [last EXCEPT !.seq = @ + 1]
  /\ replacementPairs' = cmds[k].importedPairs
  /\ cmds' = Append(Remove(cmds, k),
                    Saving(Snapshot(replacementPairs', statistics, suggester)))
  /\ probe' = Operation("importReplace", k)
  /\ UNCHANGED <<statistics, suggester, persisted, doc, selFrom, selTo, clipboard,
                 now, context, currentSuggestions, shown, applied>>

\* replacementPairs.push(...importedPairs), the imported pairs put first
PushAll_Front(pairs, importedPairs) == importedPairs \o pairs

\* replacementPairs.push(...importedPairs)
PushAll(pairs, importedPairs) == pairs \o importedPairs

\* the button "Merge" of dialog k
ImportMerge(k) ==
  /\ last.seq < MaxEvents
  /\ k \in 1..Len(cmds)
  /\ cmds[k].phase = "dialog"
  /\ last' = [last EXCEPT !.seq = @ + 1]
  /\ replacementPairs' = PushAll(replacementPairs, cmds[k].importedPairs)
  /\ cmds' = Append(Remove(cmds, k),
                    Saving(Snapshot(replacementPairs', statistics, suggester)))
  /\ probe' = Operation("importMerge", k)
  /\ UNCHANGED <<statistics, suggester, persisted, doc, selFrom, selTo, clipboard,
                 now, context, currentSuggestions, shown, applied>>

\* the button "Cancel" of dialog k, or a click on its overlay
ImportCancel(k) ==
  /\ last.seq < MaxEvents
  /\ k \in 1..Len(cmds)
  /\ cmds[k].phase = "dialog"
  /\ last' = [last EXCEPT !.seq = @ + 1]
  /\ cmds' = Remove(cmds, k)
  /\ probe' = Operation("importCancel", k)
  /\ UNCHANGED <<replacementPairs, statistics, suggester, persisted, doc, selFrom,
                 selTo, clipboard, now, context, currentSuggestions, shown, applied>>

\* the button "Delete" of pair row i
DeletePair(i) ==
  /\ last.seq < MaxEvents
  /\ Len(cmds) < MaxInFlight
  /\ i \in 1..Len(replacementPairs)
  /\ last' = [last EXCEPT !.seq = @ + 1]
  /\ replacementPairs' = [k \in 1..(Len(replacementPairs) - 1) |->
                            IF k < i THEN replacementPairs[k] ELSE replacementPairs[k + 1]]
  /\ cmds' = Append(cmds, Saving(Snapshot(replacementPairs', statistics, suggester)))
  /\ probe' = Operation("deletePair", i)
  /\ UNCHANGED <<statistics, suggester, persisted, doc, selFrom, selTo, clipboard,
                 now, context, currentSuggestions, shown, applied>>

\* The button "Export": the downloaded file holds JSON.stringify of the
\* list, in which a property whose value is undefined is left out.  The
\* text is on record in the form JSON.parse gives it back.
exportSettings ==
  /\ last.seq < MaxEvents
  /\ last' = [last EXCEPT !.seq = @ + 1]
  /\ probe' =
       [Operation("exportSettings", 0) EXCEPT
          !.context = "array",
          !.match =
            [k \in 1..Len(replacementPairs) |->
               LET pair == replacementPairs[k] IN
               [pair |-> pair,
                missing |->
                  {f \in {"caseSensitive", "wholeWord"} : pair[f] = "undefined"}
                    \cup (IF pair.lastUsedAt = 0 THEN {"lastUsedAt"} ELSE {})
                    \cup (IF pair.matchContext.present THEN {} ELSE {"matchContext"})]]]
  /\ UNCHANGED <<replacementPairs, statistics, suggester, persisted, doc, selFrom,
                 selTo, clipboard, now, cmds, context, currentSuggestions, shown,
                 applied>>

InitSettings ==
  /\ replacementPairs \in {<<>>, <<PairHello, PairDate>>}
  /\ statistics = DEFAULT_STATISTICS
  /\ suggester = DEFAULT_SUGGESTER
  /\ persisted = Snapshot(replacementPairs, statistics, suggester)
  /\ doc = <<>>
  /\ selFrom = 0
  /\ selTo = 0
  /\ clipboard = <<>>
  /\ now = 1
  /\ cmds = <<>>
  /\ context = NoSuggestContext
  /\ currentSuggestions = <<>>
  /\ shown = NothingShown
  /\ probe = ProbeNone
  /\ last = NoLast
  /\ applied = NoneApplied(replacementPairs)

NextSettings ==
  \/ addNewPair
  \/ \E rnd \in {1, 2} : importTemplate(PairTodo, rnd)
  \/ importRegexTemplate
  \/ \E i \in 1..3 : ToggleRegexMode(i)
  \/ \E i \in 1..3 : DeletePair(i)
  \/ exportSettings
  \/ \E payload \in ImportPayloads : importSettings(payload)
  \/ probe.op = "exportSettings"
       /\ importSettings([kind |-> probe.context, items |-> probe.match])
  \/ \E k \in 1..MaxInFlight : ImportReplace(k)
  \/ \E k \in 1..MaxInFlight : ImportMerge(k)
  \/ \E k \in 1..MaxInFlight : ImportCancel(k)
  \/ \E k \in 1..MaxInFlight : SaveDone(k)

SpecSettings == InitSettings /\ [][NextSettings]_vars

\* C12: a click on Replace leaves exactly the pairs of the file, in the
\* order of the file; a click on Merge leaves the pairs there were, in the
\* order they had, followed by the pairs of the file in the order of the
\* file (N pairs, and M + N pairs).
C12_ImportReplaceAndMerge ==
  [][(last'.seq # last.seq /\ probe'.op \in {"importReplace", "importMerge"})
     => LET importedPairs == cmds[probe'.idx].importedPairs IN
        IF probe'.op = "importReplace"
        THEN /\ replacementPairs' = importedPairs
             /\ Len(replacementPairs') = Len(importedPairs)
        ELSE /\ Len(replacementPairs') = Len(replacementPairs) + Len(importedPairs)
             /\ SubSeq(replacementPairs', 1, Len(replacementPairs)) = replacementPairs
             /\ SubSeq(replacementPairs', Len(replacementPairs) + 1,
                       Len(replacementPairs')) = importedPairs]_vars

\* two pairs of a file have been merged into a list of two pairs
C12_Witness ==
  /\ probe.op = "importMerge"
  /\ Len(replacementPairs) = 4
  /\ SubSeq(replacementPairs, 1, 2) = <<PairHello, PairDate>>
  /\ SubSeq(replacementPairs, 3, 4) = <<PairHi, PairHeading>>

\* C13: an import of a file whose content is no array, or has an element
\* with a missing or empty source or target, shows no dialog and leaves the
\* pairs, the statistics and the stored settings as they were, and calls no
\* saveSettings (no write is started).
C13_BadImportChangesNothing ==
  [][(/\ last'.seq # last.seq
      /\ probe'.op = "importSettings"
      /\ \/ probe'.context # "array"
         \/ \E k \in 1..Len(probe'.match) :
              \/ probe'.match[k].missing \cap {"source", "target"} # {}
              \/ probe'.match[k].pair.source = <<>>
              \/ probe'.match[k].pair.target = <<>>)
     => /\ ~probe'.found
        /\ UNCHANGED <<replacementPairs, statistics, persisted, cmds>>]_vars

\* an array whose second element has an empty source has been turned down
\* while the list held pairs and a write was in flight
C13_Witness ==
  /\ probe.op = "importSettings"
  /\ probe.context = "array"
  /\ Len(probe.match) = 2
  /\ probe.match[2].pair.source = <<>>
  /\ ~probe.found
  /\ replacementPairs # <<>>
  /\ cmds # <<>>
  /\ \A k \in 1..Len(cmds) : cmds[k].phase = "saving"

\* C20: no pair of the list is both a regex pair and a template pair, after
\* any sequence of add pair, import of a library template, import of a regex
\* template and toggle of the regex mode.
C20_NeverRegexAndTemplate ==
  \A k \in 1..Len(replacementPairs) :
    ~(replacementPairs[k].isRegex /\ replacementPairs[k].isTemplate)

(***************************************************************************)
(* The two lookups over the list of pairs, findMatchingPairWithResult and  *)
(* getSuggestions, called on drawn texts for lists that hold regex pairs   *)
(* whose expression cannot be built                                        *)
(***************************************************************************)

\* a regex pair whose pattern compiles, but not with its flags
PairBadFlags ==
  [NewPair("flags", <<"(", ".", ")", "(", ".", "+", ")">>, <<"x">>) EXCEPT
     !.isRegex = TRUE, !.regexFlags = <<"g", "g">>]

CallGetSuggestions(query) ==
  /\ probe.op = "none"
  /\ \E results \in {getSuggestions(query, replacementPairs, suggester)} :
       probe' = [ProbeNone EXCEPT !.op = "suggest", !.text = query, !.match = results]
  /\ UNCHANGED <<replacementPairs, statistics, suggester, persisted, doc, selFrom,
                 selTo, clipboard, now, cmds, context, currentSuggestions, shown,
                 last, applied>>

InitLookup ==
  /\ replacementPairs \in { <<PairBroken, PairEcho, PairHi>>,
                            <<PairEmptyRegex, PairBadFlags, PairDate>> }
  /\ statistics = DEFAULT_STATISTICS
  /\ suggester \in {DEFAULT_SUGGESTER, [DEFAULT_SUGGESTER EXCEPT !.matchingMode = "fuzzy"]}
  /\ persisted = Snapshot(replacementPairs, statistics, suggester)
  /\ doc = <<>>
  /\ selFrom = 0
  /\ selTo = 0
  /\ clipboard = <<>>
  /\ now = 1
  /\ cmds = <<>>
  /\ context = NoSuggestContext
  /\ currentSuggestions = <<>>
  /\ shown = NothingShown
  /\ probe = ProbeNone
  /\ last = NoLast
  /\ applied = NoneApplied(replacementPairs)

NextLookup ==
  \/ \E i \in 1..3 : ToggleEnabled(i)
  \/ \E i \in 1..3 : MoveDown(i)
  \/ \E text \in ProbeTexts, ctx \in ProbeContexts : CallFindMatchingPair(text, ctx)
  \/ \E query \in ProbeTexts : CallGetSuggestions(query)

SpecLookup == InitLookup /\ [][NextLookup]_vars

\* C14: a regex pair whose pattern is empty or cannot be compiled with its
\* flags makes neither lookup fail: findMatchingPairWithResult returns
\* without an exception, never returns such a pair, and returns a pair
\* whenever some enabled, allowed pair that can be compiled matches, also one
\* behind the faulty pair; getSuggestions lists no such pair and lists every
\* enabled regex pair that can be compiled and finds a match in the query.
C14_FaultyRegexIsNoMatch ==
  LET Faulty(pair) ==
        /\ pair.isRegex
        /\ \/ pair.source = <<>>
           \/ ~Compile(pair.source).ok
           \/ ~ValidFlags(pair.regexFlags)
      Sound(k) == replacementPairs[k].enabled /\ ~Faulty(replacementPairs[k])
  IN  /\ probe.op = "find" =>
           /\ ~probe.threw
           /\ probe.found => ~Faulty(replacementPairs[probe.idx])
           /\ probe.found <=>
                \E k \in 1..Len(replacementPairs) :
                  /\ Sound(k)
                  /\ isContextAllowed(replacementPairs[k], probe.context)
                  /\ isMatch(probe.text, replacementPairs[k]).matched
      /\ probe.op = "suggest" =>
           /\ \A j \in 1..Len(probe.match) : ~Faulty(replacementPairs[probe.match[j]])
           /\ \A k \in 1..Len(replacementPairs) :
                (/\ Sound(k)
                 /\ replacementPairs[k].isRegex
                 /\ RegexTest(probe.text, replacementPairs[k].source,
                              EffectiveFlags(replacementPairs[k])))
                => \E j \in 1..Len(probe.match) : probe.match[j] = k

\* a lookup has returned a pair that stands behind an enabled regex pair
\* which cannot be compiled
C14_Witness ==
  /\ probe.op = "find"
  /\ probe.found
  /\ \E j \in 1..(probe.idx - 1) :
       /\ replacementPairs[j].enabled
       /\ replacementPairs[j].isRegex
       /\ ~validateRegex(replacementPairs[j].source, replacementPairs[j].regexFlags)
       /\ isContextAllowed(replacementPairs[j], probe.context)

(***************************************************************************)
(* Further properties of the matching functions                            *)
(***************************************************************************)

\* C15: isContextAllowed(pair, context) is false when the context is in the
\* exclude list, also when it is in the include list as well; otherwise,
\* with a non-empty include list, it is true exactly when the context is in
\* that list; without a filter, or with both lists empty, it is true.
C15_ExcludeBeforeInclude ==
  probe.op = "allowed" =>
    LET matchContext == replacementPairs[probe.idx].matchContext
        Excluded == \E k \in 1..Len(matchContext.exclude) :
                      matchContext.exclude[k] = probe.context
        Included == \E k \in 1..Len(matchContext.include) :
                      matchContext.include[k] = probe.context
    IN  /\ (matchContext.present /\ Excluded) => ~probe.matched
        /\ (matchContext.present /\ ~Excluded /\ matchContext.include # <<>>)
             => (probe.matched <=> Included)
        /\ (~matchContext.present
            \/ (matchContext.include = <<>> /\ matchContext.exclude = <<>>))
             => probe.matched

\* a context that is in both lists of a pair has been turned down
C15_Witness ==
  /\ probe.op = "allowed"
  /\ ~probe.matched
  /\ SeqIncludes(replacementPairs[probe.idx].matchContext.include, probe.context)
  /\ SeqIncludes(replacementPairs[probe.idx].matchContext.exclude, probe.context)

\* C16: for a literal pair whose wholeWord is false or absent, isMatch
\* succeeds exactly when input and source are equal (caseSensitive true or
\* absent), or equal after lower-casing both (caseSensitive false).
C16_LiteralMatchIsEquality ==
  (/\ probe.op = "isMatch"
   /\ ~replacementPairs[probe.idx].isRegex
   /\ replacementPairs[probe.idx].wholeWord # "true")
  => LET Lower(s) == [k \in 1..Len(s) |-> LowerChar(s[k])]
         source == replacementPairs[probe.idx].source
     IN  probe.matched <=>
           IF replacementPairs[probe.idx].caseSensitive = "false"
           THEN Lower(probe.text) = Lower(source)
           ELSE probe.text = source

\* a case-insensitive literal pair has matched an input that differs from
\* its source in case only
C16_Witness ==
  /\ probe.op = "isMatch"
  /\ ~replacementPairs[probe.idx].isRegex
  /\ replacementPairs[probe.idx].wholeWord # "true"
  /\ replacementPairs[probe.idx].caseSensitive = "false"
  /\ probe.matched
  /\ probe.text # replacementPairs[probe.idx].source

\* C17: a literal pair without a caseSensitive field matches exactly the
\* inputs that the same pair with caseSensitive = true matches, with
\* wholeWord off and with wholeWord on.
C17_CaseSensitiveDefaultsToTrue ==
  (/\ probe.op = "isMatch"
   /\ ~replacementPairs[probe.idx].isRegex
   /\ replacementPairs[probe.idx].caseSensitive = "undefined")
  => probe.matched =
       isMatch(probe.text,
               [replacementPairs[probe.idx] EXCEPT !.caseSensitive = "true"]).matched

\* C18: a pair whose source is empty matches no input, be it a regex pair or
\* a literal pair with any caseSensitive and wholeWord.
C18_EmptySourceMatchesNothing ==
  (probe.op = "isMatch" /\ replacementPairs[probe.idx].source = <<>>)
  => ~probe.matched

\* C19: an escaped \$ of the target is never read as the start of a capture
\* reference: the output is what the pieces of the target between the
\* escapes expand to, with a literal $ where each escape stood, so the digit
\* behind an escape is kept.
C19_EscapedDollarIsLiteral ==
  LET RECURSIVE Expected(_)
      Expected(target) ==
        LET At(i) ==
              IF i = -1 THEN applyCaptureGroups(target, probe.match)
              ELSE applyCaptureGroups(Substring(target, 0, i), probe.match)
                   \o <<"$">> \o Expected(Substring(target, i + 2, Len(target)))
        IN  At(IndexOf(target, <<"\\", "$">>))
  IN  probe.op = "apply" => probe.result = Expected(probe.target)

\* the target '\$1 means $1' has been expanded for a match whose first group
\* is not empty
C19_Witness ==
  /\ probe.op = "apply"
  /\ probe.target = <<"\\", "$", "1", " ", "m", "e", "a", "n", "s", " ", "$", "1">>
  /\ Len(probe.match) >= 2
  /\ probe.match[2] # <<>>
  /\ probe.result = <<"$", "1", " ", "m", "e", "a", "n", "s", " ">> \o probe.match[2]

(***************************************************************************)
(* Further properties of the settings operations                           *)
(***************************************************************************)

\* C21: the ids that Add pair, the import of a regex template and the import
\* of a library template have given to new pairs are pairwise distinct, also
\* for two pairs made at the same clock reading, and whether the pairs are
\* still in the list or have been deleted since.
C21_CreatedIdsDistinct ==
  \A i, j \in 1..Len(last.inserted) :
    i # j => last.inserted[i] # last.inserted[j]

\* C30: when the file chosen for import is the file that Export has just
\* written, the import accepts it and opens the dialog with a list equal to
\* the exported one (the list that Replace then puts in place), whatever
\* pairs the settings operations have left in the list.
C30_ExportImportRoundTrip ==
  [][(/\ last'.seq # last.seq
      /\ probe.op = "exportSettings"
      /\ probe'.op = "importSettings"
      /\ probe'.context = probe.context
      /\ probe'.match = probe.match)
     => /\ probe'.found
        /\ Len(cmds') = Len(cmds) + 1
        /\ cmds'[Len(cmds')].phase = "dialog"
        /\ cmds'[Len(cmds')].importedPairs = replacementPairs]_vars

(***************************************************************************)
(* The functions of the suggester, called on drawn queries for lists whose *)
(* matches outnumber maxSuggestions, in both matching modes                *)
(***************************************************************************)

\* calculateFuzzyScore(query, text), called on its own
CallCalculateFuzzyScore(query, text) ==
  /\ probe.op = "none"
  /\ probe' = [ProbeNone EXCEPT !.op = "fuzzyScore", !.text = query, !.target = text,
                                !.idx = calculateFuzzyScore(query, text)]
  /\ UNCHANGED <<replacementPairs, statistics, suggester, persisted, doc, selFrom,
                 selTo, clipboard, now, cmds, context, currentSuggestions, shown,
                 last, applied>>

\* fuzzyMatch(query, regularPairs) as getSuggestions calls it in fuzzy mode
CallFuzzyMatch(query) ==
  /\ probe.op = "none"
  /\ suggester.matchingMode = "fuzzy"
  /\ LET Regular(k) == replacementPairs[k].enabled /\ ~replacementPairs[k].isRegex IN
     \E results \in {fuzzyMatch(query, replacementPairs,
                                SelectSeq(Positions(Len(replacementPairs)), Regular),
                                suggester.caseSensitive)} :
       probe' = [ProbeNone EXCEPT !.op = "fuzzyMatch", !.text = query, !.match = results]
  /\ UNCHANGED <<replacementPairs, statistics, suggester, persisted, doc, selFrom,
                 selTo, clipboard, now, cmds, context, currentSuggestions, shown,
                 last, applied>>

SuggestQueries == {<<>>, <<"h", "i">>, <<"H", "I">>, <<"a", "b">>, <<"2", "0", "2", "4", "-", "1", "2", "-", "3", "0">>}

FuzzyTexts == {<<>>, <<"a">>, <<"a", "b">>, <<"b", "a">>, <<"a", "a", "b">>, <<"a", "x", "a", "b">>, <<"x", "a", "x", "b">>, <<"h", "i">>, <<"H", "x", "i">>}

InitSuggest ==
  /\ replacementPairs \in
       { <<PairEcho, NewPair("a", <<"h", "i">>, <<"A">>), NewPair("b", <<"a", "h", "i">>, <<"B">>),
           NewPair("c", <<"H", "x", "i">>, <<"C">>), NewPair("d", <<"h", "i", "t">>, <<"D">>)>>,
         <<PairHi, PairDate, NewPair("e", <<>>, <<"E">>), PairBroken,
           NewPair("f", <<"x", "a", "x", "b">>, <<"F">>)>> }
  /\ statistics = DEFAULT_STATISTICS
  /\ suggester \in {[DEFAULT_SUGGESTER EXCEPT !.maxSuggestions = 3, !.matchingMode = mode,
                                              !.caseSensitive = cs] :
                      mode \in {"prefix", "fuzzy"}, cs \in BOOLEAN}
  /\ persisted = Snapshot(replacementPairs, statistics, suggester)
  /\ doc = <<>>
  /\ selFrom = 0
  /\ selTo = 0
  /\ clipboard = <<>>
  /\ now = 1
  /\ cmds = <<>>
  /\ context = NoSuggestContext
  /\ currentSuggestions = <<>>
  /\ shown = NothingShown
  /\ probe = ProbeNone
  /\ last = NoLast
  /\ applied = NoneApplied(replacementPairs)

NextSuggest ==
  \/ \E i \in 1..5 : ToggleEnabled(i)
  \/ \E query \in SuggestQueries : CallGetSuggestions(query)
  \/ \E query \in SuggestQueries : CallFuzzyMatch(query)
  \/ \E query \in SuggestQueries, text \in FuzzyTexts : CallCalculateFuzzyScore(query, text)

SpecSuggest == InitSuggest /\ [][NextSuggest]_vars

\* C22: getSuggestions returns the enabled pairs that match the query, the
\* non-regex ones before the regex ones, cut to maxSuggestions: the result
\* has Min(maxSuggestions, number of matching pairs) entries, all distinct,
\* enabled and matching; no regex pair stands before a non-regex pair (so
\* the cut drops regex pairs first); the regex pairs stand in list order,
\* and in prefix mode so do the non-regex pairs.
C22_SuggestionsOrderedAndLimited ==
  LET pairs == replacementPairs
      results == probe.match
      Normal(str) == IF suggester.caseSensitive THEN str ELSE ToLowerCase(str)
      Matches(k) ==
        /\ pairs[k].enabled
        /\ IF pairs[k].isRegex
           THEN /\ validateRegex(pairs[k].source, pairs[k].regexFlags)
                /\ RegexTest(probe.text, pairs[k].source, EffectiveFlags(pairs[k]))
           ELSE IF suggester.matchingMode = "prefix"
                THEN StartsWith(Normal(pairs[k].source), Normal(probe.text))
                ELSE calculateFuzzyScore(Normal(probe.text), Normal(pairs[k].source)) > 0
  IN  probe.op = "suggest" =>
        /\ Len(results) <= suggester.maxSuggestions
        /\ Len(results) = Min(suggester.maxSuggestions,
                              Cardinality({k \in 1..Len(pairs) : Matches(k)}))
        /\ \A j \in 1..Len(results) : results[j] \in 1..Len(pairs) /\ Matches(results[j])
        /\ \A i, j \in 1..Len(results) :
             i < j =>
               /\ results[i] # results[j]
               /\ ~(pairs[results[i]].isRegex /\ ~pairs[results[j]].isRegex)
               /\ (pairs[results[i]].isRegex /\ pairs[results[j]].isRegex)
                    => results[i] < results[j]
               /\ suggester.matchingMode = "prefix" => 
                    (pairs[results[i]].isRegex = pairs[results[j]].isRegex
                       => results[i] < results[j])

\* a list of five matching pairs has been cut to three: the regex pair that
\* stands first in the list of pairs has been dropped
C22_Witness ==
  /\ probe.op = "suggest"
  /\ Len(probe.match) = suggester.maxSuggestions
  /\ replacementPairs[1].enabled
  /\ replacementPairs[1].isRegex
  /\ RegexTest(probe.text, replacementPairs[1].source, EffectiveFlags(replacementPairs[1]))
  /\ \A j \in 1..Len(probe.match) : ~replacementPairs[probe.match[j]].isRegex

\* C25: for a query that is matched in full, calculateFuzzyScore is the sum
\* over the query characters of 1, plus 3 when the character is matched at
\* the source index equal to its query index, plus 2 exactly when the
\* previous query character was matched at the source position just before
\* (and nothing when it was matched at an earlier, non-adjacent position).
C25_FuzzyScoreBonuses ==
  LET query == probe.text
      text == probe.target
      \* the score by the positions of the matches; prev is the 0-based
      \* position at which the previous query character was matched
      RECURSIVE ByPositions(_, _, _, _)
      ByPositions(qi, ti, prev, score) ==
        IF qi < Len(query) /\ ti < Len(text)
        THEN IF query[qi + 1] = text[ti + 1]
             THEN ByPositions(qi + 1, ti + 1, ti,
                              score + 1
                              + (IF ti = qi THEN 3 ELSE 0)
                              + (IF qi > 0 /\ prev = ti - 1 THEN 2 ELSE 0))
             ELSE ByPositions(qi, ti + 1, prev, score)
        ELSE IF qi = Len(query) THEN score ELSE -1
  IN  (probe.op = "fuzzyScore" /\ ByPositions(0, 0, -1, 0) # -1)
        => probe.idx = ByPositions(0, 0, -1, 0)

\* C26: fuzzyMatch, for a non-empty query, returns exactly the enabled
\* non-regex pairs whose case-adjusted source has the case-adjusted query
\* as a subsequence; each of them has a score of at least 1; they stand by
\* descending score, pairs of equal score in the order of the list.
C26_FuzzyMatchSubsequenceOrder ==
  LET pairs == replacementPairs
      results == probe.match
      Normal(str) == IF suggester.caseSensitive THEN str ELSE ToLowerCase(str)
      RECURSIVE IsSubsequence(_, _)
      IsSubsequence(q, s) ==
        IF q = <<>> THEN TRUE
        ELSE IF s = <<>> THEN FALSE
        ELSE IF Head(q) = Head(s) THEN IsSubsequence(Tail(q), Tail(s))
        ELSE IsSubsequence(q, Tail(s))
      Qualifies(k) ==
        /\ pairs[k].enabled
        /\ ~pairs[k].isRegex
        /\ IsSubsequence(Normal(probe.text), Normal(pairs[k].source))
      Score(k) == calculateFuzzyScore(Normal(probe.text), Normal(pairs[k].source))
  IN  (probe.op = "fuzzyMatch" /\ probe.text # <<>>) =>
        /\ {results[j] : j \in 1..Len(results)} = {k \in 1..Len(pairs) : Qualifies(k)}
        /\ \A k \in 1..Len(pairs) : Qualifies(k) => Score(k) >= 1
        /\ \A i, j \in 1..Len(results) :
             i < j => \/ Score(results[i]) > Score(results[j])
                      \/ Score(results[i]) = Score(results[j]) /\ results[i] < results[j]

\* four pairs qualify: two of equal score stand first in list order, and a
\* pair stands before one that precedes it in the list
C26_Witness ==
  /\ probe.op = "fuzzyMatch"
  /\ probe.text # <<>>
  /\ Len(probe.match) = 4
  /\ probe.match[1] < probe.match[2]
  /\ calculateFuzzyScore(ToLowerCase(probe.text),
                         ToLowerCase(replacementPairs[probe.match[1]].source))
       = calculateFuzzyScore(ToLowerCase(probe.text),
                             ToLowerCase(replacementPairs[probe.match[2]].source))
  /\ probe.match[3] > probe.match[4]
  /\ ~suggester.caseSensitive

(***************************************************************************)
(* detectContext, called at every position of drawn documents              *)
(***************************************************************************)

\* detectContext(editor, line, ch) for a position of the document
CallDetectContext(line, ch) ==
  /\ probe.op = "none"
  /\ line < Len(SplitLines(doc))
  /\ ch <= Len(SplitLines(doc)[line + 1])
  /\ probe' = [ProbeNone EXCEPT !.op = "context", !.match = <<line, ch>>,
                                !.text = SplitLines(doc)[line + 1],
                                !.context = detectContext(doc, line, ch)]
  /\ UNCHANGED <<replacementPairs, statistics, suggester, persisted, doc, selFrom,
                 selTo, clipboard, now, cmds, context, currentSuggestions, shown,
                 last, applied>>

ContextDocs ==
  { <<"a", "\n", Backtick, Backtick, Backtick, "j", "s", "\n", "h", "i", " ", "(", "x", "\n", " ", " ", "~", "~", "~", " ", "\n", "[", "l", "]", "(", "u", ")", " ", "(", "b", "\n", "#", " ", "h", " ", "[", "x">>,
    <<"x", " ", "(", "y", " ", "z", "\n", ">", " ", "q", " ", "[", "w", "\n", "-", " ", "i", " ", "(", "j", "\n", Backtick, "c", " ", "[", "d", Backtick, " ", "e", "\n", "1", ".", " ", "[", "k", "]", " ", "(", "m", ")", " ", "n">>,
    <<"~", "~", "~", "\n", Backtick, Backtick, Backtick, "\n", "u", "]", "(", " ", "v", "\n", Backtick, Backtick, Backtick, "\n", "\n", " ", " ", Backtick, Backtick, Backtick, "\n", "[", " ", Backtick, "]", Backtick, " ", "(">>,
    <<"(", "a", ")", " ", "[", "b", "]", " ", "c", " ", "(", "d", "\n", "*", " ", "[", "e", "]", "(", "f", ")", "g">> }

MaxLine == 6

MaxCh == 12

InitContext ==
  /\ replacementPairs = <<>>
  /\ statistics = DEFAULT_STATISTICS
  /\ suggester = DEFAULT_SUGGESTER
  /\ persisted = Snapshot(replacementPairs, statistics, suggester)
  /\ doc \in ContextDocs
  /\ selFrom = 0
  /\ selTo = 0
  /\ clipboard = <<>>
  /\ now = 1
  /\ cmds = <<>>
  /\ context = NoSuggestContext
  /\ currentSuggestions = <<>>
  /\ shown = NothingShown
  /\ probe = ProbeNone
  /\ last = NoLast
  /\ applied = NoneApplied(replacementPairs)

NextContext == \E line \in 0..MaxLine, ch \in 0..MaxCh : CallDetectContext(line, ch)

SpecContext == InitContext /\ [][NextContext]_vars

\* C27: detectContext returns codeBlock for line L exactly when the number
\* of fence lines (lines that, trimmed, start with three backticks or three
\* tildes) among the lines 0..L is odd: the opening fence line and the lines
\* behind it are codeBlock, the closing fence line and the lines behind it
\* are not, nor is a line before the opening fence.
C27_CodeBlockByFenceParity ==
  LET lines == SplitLines(doc)
      RECURSIVE Fences(_)
      Fences(n) ==
        IF n < 0 THEN 0
        ELSE Fences(n - 1) + (IF IsFenceLine(lines[n + 1]) THEN 1 ELSE 0)
  IN  probe.op = "context" =>
        (probe.context = "codeBlock" <=> Fences(probe.match[1]) % 2 = 1)

\* the position is on a fence line that closes a block opened by a fence of
\* the other kind, and is not codeBlock
C27_Witness ==
  /\ probe.op = "context"
  /\ probe.match[1] = 3
  /\ IsFenceLine(probe.text)
  /\ StartsWith(SplitLines(doc)[2], <<Backtick, Backtick, Backtick>>)
  /\ StartsWith(Trim(probe.text), <<"~", "~", "~">>)
  /\ probe.context # "codeBlock"

\* C28: at a position that is neither in a code block nor in inline code
\* nor on a heading line, detectContext returns link exactly when, left of
\* the column, the last "[" stands behind the last "]", or the last "("
\* stands behind both the last ")" and the last "]" (a character that does
\* not occur counting as position -1).
C28_LinkByLastBrackets ==
  LET lines == SplitLines(doc)
      beforeCursor == Substring(probe.text, 0, probe.match[2])
      Higher == \/ isInCodeBlock(lines, probe.match[1])
                \/ isInInlineCode(probe.text, probe.match[2])
                \/ IsHeadingLine(probe.text)
  IN  (probe.op = "context" /\ ~Higher) =>
        (probe.context = "link" <=>
           \/ LastIndexOf(beforeCursor, <<"[">>) > LastIndexOf(beforeCursor, <<"]">>)
           \/ /\ LastIndexOf(beforeCursor, <<"(">>) > LastIndexOf(beforeCursor, <<")">>)
              /\ LastIndexOf(beforeCursor, <<"(">>) > LastIndexOf(beforeCursor, <<"]">>))

(***************************************************************************)
(* Further properties of accepting a suggestion                            *)
(***************************************************************************)

\* C23: after a suggestion has been accepted the cursor stands at the end
\* of the inserted replacement text, whatever the text holds, line breaks
\* included.
C23_CursorAtEndOfInsertedText ==
  (last.kind = "suggest" /\ last.outcome = "replaced")
    => last.cursor = last.insertAt + Len(last.inserted)

(***************************************************************************)
(* The suggester with each setting of acceptKeys, in notes where the       *)
(* cursor stands in a code block, in a heading and in plain text           *)
(***************************************************************************)

\* The host calls selectSuggestion(value, evt) for item j of the popup it
\* shows: on a click on the item, and on Enter when no handler of the scope
\* has taken the key
HostSelect(j, evt) ==
  /\ now <= MaxEvents
  /\ Len(cmds) < MaxInFlight
  /\ context.open
  /\ j \in 1..Len(currentSuggestions)
  /\ now' = now + 1
  /\ selectSuggestion(currentSuggestions[j], evt)
  /\ UNCHANGED <<suggester, persisted, clipboard, probe>>

AcceptDocs ==
  { <<Backtick, Backtick, Backtick, "\n", "h", "i">>, <<"#", " ", "h", "i">>, <<"h", "i", " ", "x">>, <<"~", "~", "~", "\n", "h">> }

InitAccept ==
  /\ replacementPairs = <<PairHi, PairHeading>>
  /\ statistics = DEFAULT_STATISTICS
  /\ suggester \in {[DEFAULT_SUGGESTER EXCEPT !.acceptKeys = keys] :
                      keys \in {"tab", "enter", "both"}}
  /\ persisted = Snapshot(replacementPairs, statistics, suggester)
  /\ doc \in AcceptDocs
  /\ selFrom = Len(doc)
  /\ selTo = Len(doc)
  /\ clipboard = <<>>
  /\ now = 1
  /\ cmds = <<>>
  /\ context = NoSuggestContext
  /\ currentSuggestions = <<>>
  /\ shown = NothingShown
  /\ probe = ProbeNone
  /\ last = NoLast
  /\ applied = NoneApplied(replacementPairs)

NextAccept ==
  \/ \E from \in 0..Len(doc) : SelectWord(from)
  \/ \E from \in 0..Len(doc) : ClickAfterWord(from)
  \/ \E c \in TypedChars : TypeChar(c)
  \/ ReplaceCommand
  \/ \E k \in 1..MaxInFlight : SaveDone(k)
  \/ \E key \in {"Tab", "Enter"} : AcceptKey(key)
  \/ \E j \in 1..2, evt \in {"Enter", "click"} : HostSelect(j, evt)

SpecAccept == InitAccept /\ [][NextAccept]_vars

\* C24: with acceptKeys = "tab" no Enter key press substitutes anything,
\* neither in the handler registered for Enter nor in selectSuggestion
\* called with the Enter event; with acceptKeys = "enter" no Tab key press
\* substitutes anything; with "both" either key, pressed while the popup
\* shows a list that is not empty, applies the first pair of the list.
C24_AcceptKeysDecideTheKey ==
  [][LET NothingSubstituted ==
           /\ doc' = doc
           /\ applied' = applied
           /\ replacementPairs' = replacementPairs
           /\ last'.outcome # "replaced"
     IN  /\ (/\ suggester.acceptKeys = "tab"
             /\ \/ AcceptKey("Enter")
                \/ \E j \in 1..2 : HostSelect(j, "Enter"))
              => NothingSubstituted
         /\ (suggester.acceptKeys = "enter" /\ AcceptKey("Tab"))
              => NothingSubstituted
         /\ (/\ suggester.acceptKeys = "both"
             /\ context.open
             /\ Len(currentSuggestions) > 0
             /\ AcceptKey("Tab") \/ AcceptKey("Enter"))
              => /\ last'.outcome = "replaced"
                 /\ last'.idx = currentSuggestions[1]
                 /\ applied'.total = applied.total + 1
                 /\ doc' = ReplaceRangeText(doc, PosToOffset(doc, context.start),
                                            PosToOffset(doc, context.end),
                                            replacementPairs[currentSuggestions[1]].target)]_vars

\* with acceptKeys = "tab" the popup shows a list and selectSuggestion,
\* called with the Enter event, has returned without a replacement
C24_Witness ==
  /\ suggester.acceptKeys = "tab"
  /\ context.open
  /\ Len(currentSuggestions) > 0
  /\ last.kind = "suggest"
  /\ last.outcome = "ignored"
  /\ applied.total = 0

\* C29: no substitution, by the replace command or by the suggester, puts
\* in the text of a pair whose matchContext does not allow the context of
\* the document at the cursor.
C29_NoSubstitutionInDisallowedContext ==
  [][applied'.total = applied.total + 1
     => isContextAllowed(replacementPairs[last'.idx],
                         ContextAt(doc, IF last'.kind = "command" THEN selFrom
                                        ELSE selTo))]_vars

====
